---- MODULE Spec2Model ----
(***************************************************************************)
(* Model of the component resolution engine of src/src/tools/figma_tools.py *)
(* (search_components, get_component_variants, get_component_details and   *)
(* _extract_tokens_recursive).                                             *)
(*                                                                         *)
(* A Python str is modelled as the sequence of its code points, so that    *)
(* lower(), strip(), replace(), startswith(), "in" and the < of sorting    *)
(* are computed the way Python computes them.  A list of component dicts   *)
(* taken from the listing is modelled as the sequence of the listing       *)
(* positions of its members (the dicts are the listing's own objects);     *)
(* "c not in lst" compares the records by value, as Python does.           *)
(* None is modelled as 0 for ids and as <<>> for an absent name.           *)
(***************************************************************************)
EXTENDS Integers, Sequences, FiniteSets, TLC

\* ------------------------------------------------------------ bounds
MaxComps == 2      \* components listed one by one
FamilySize == 21   \* size of a variant family listed in one go
MaxNodes == 3      \* nodes of a token tree added one by one
ChainLen == 7      \* length of the chain that deepens a token tree
MaxFrames == 2     \* children of a pattern page added one by one
RowSize == 10      \* size of a row of frames added to a pattern page in one go
MaxCalls == 2      \* calls of figma_request made one after the other

\* ------------------------------------------------- program constants
ResultLimit == 20      \* results[:20]
FuzzyMinLen == 3       \* len(query_clean) > 3
RawDepthLimit == 3     \* len(path) < 3
RecurseDepthLimit == 5 \* len(path) < 5
TextDepthLimit == 20   \* if depth > 20
KeyMinLen == 22         \* [a-zA-Z0-9]{22,}
GuideFrameLimit == 10  \* all_frames[:10]

\* ------------------------------------------------------------ strings
S_Button == <<66, 117, 116, 116, 111, 110>>                              \* "Button"
S_button_sp == <<98, 117, 116, 116, 111, 110, 32>>                       \* "button "
S_Buton == <<66, 117, 116, 111, 110>>                                    \* "Buton"
S_But_ton == <<66, 117, 116, 32, 116, 111, 110>>                         \* "But ton"
S_ButtonGroup == <<66, 117, 116, 116, 111, 110, 32, 71, 114, 111, 117, 112>>  \* "Button Group"
S_buttongroup == <<98, 117, 116, 116, 111, 110, 32, 103, 114, 111, 117, 112>> \* "button group"
S_Primary == <<80, 114, 105, 109, 97, 114, 121>>                         \* "Primary"
S_Large == <<76, 97, 114, 103, 101>>                                     \* "Large"
S_Small == <<83, 109, 97, 108, 108>>                                     \* "Small"
S_Tab == <<84, 97, 98>>                                                  \* "Tab"
S_Ta_b == <<84, 97, 45, 98>>                                             \* "Ta-b"
S_Tabs == <<84, 97, 98, 115>>                                            \* "Tabs"
S_NavTabs == <<78, 97, 118, 45, 84, 97, 98, 115>>                        \* "Nav-Tabs"
S_IconButton == <<73, 99, 111, 110, 45, 66, 117, 116, 116, 111, 110>>    \* "Icon-Button"
S_on == <<111, 110>>                                                     \* "on"

\* str.lower() on ASCII: A..Z (65..90) become a..z
Lower(s) == [i \in 1..Len(s) |-> IF s[i] \in 65..90 THEN s[i] + 32 ELSE s[i]]

\* the ASCII characters str.strip() removes
IsSpace(ch) == ch \in {9, 10, 11, 12, 13, 28, 29, 30, 31, 32}

\* str.strip(): drop leading and trailing whitespace
Strip(s) ==
    LET keep == {i \in 1..Len(s) : ~IsSpace(s[i])}
    IN  IF keep = {} THEN <<>>
        ELSE LET lo == CHOOSE i \in keep : \A j \in keep : i <= j
                 hi == CHOOSE i \in keep : \A j \in keep : j <= i
             IN  SubSeq(s, lo, hi)

\* str.replace(ch, ""): drop every occurrence of one character
Remove(s, ch) == SelectSeq(s, LAMBDA x : x # ch)

\* str.startswith(p)
StartsWith(s, p) == Len(p) <= Len(s) /\ SubSeq(s, 1, Len(p)) = p

\* p in s
Contains(s, p) ==
    \E i \in 0..(Len(s) - Len(p)) : SubSeq(s, i + 1, i + Len(p)) = p

\* clean, forgetting to drop the spaces
clean_keeps_spaces(s) == Remove(Remove(Lower(s), 45), 95)

\* def clean(s): s.lower().replace(" ", "").replace("-", "").replace("_", "")
clean(s) == Remove(Remove(Remove(Lower(s), 32), 45), 95)

\* lst[:n]
Take(seq, n) == SubSeq(seq, 1, IF Len(seq) < n THEN Len(seq) ELSE n)

Range(seq) == {seq[i] : i \in DOMAIN seq}

\* the listing positions 1..Len(comps) that pass test, in listing order:
\* [c for c in components if test(c)]
Filter(comps, pass) ==
    SelectSeq([i \in 1..Len(comps) |-> i], LAMBDA i : i \in pass)

\* c in lst, for a list lst of listed components: equality of the dicts
InList(comps, i, lst) == \E j \in Range(lst) : comps[j] = comps[i]

\* ------------------------------------------------------------ listing
\* One ComponentSummary of GET /files/{key}/components:
\*   name, node_id, containing_frame.{name, nodeId, pageId}
\*   (frame = <<>> and frame_id = page_id = 0 when containing_frame is absent)
Comp(n, id, f, fid, pid) ==
    [name |-> n, node_id |-> id, frame |-> f, frame_id |-> fid, page_id |-> pid]

ComponentPool == {
    Comp(S_Primary,     1, S_Button,      10, 100),
    Comp(S_Button,      2, S_Button,      10, 100),
    Comp(S_Button,      3, <<>>,           0,   0),
    Comp(S_Large,       4, S_ButtonGroup, 11, 100),
    Comp(S_ButtonGroup, 1, S_NavTabs,     12, 101),
    Comp(S_IconButton,  1, S_Tabs,        13, 101),
    Comp(S_Small,       7, S_buttongroup, 14, 101),
    Comp(S_Primary,     8, S_button_sp,   15, 100) }

QueryPool == {S_Button, S_But_ton, S_Buton, S_Tab, S_Ta_b, S_on}

\* ---------------------------------------------------- search_components
\* query_lower = query.lower().strip()
query_lower(query) == Strip(Lower(query))

\* Tier 1: exact match on containing_frame name
exact_frame(comps, ql) ==
    Filter(comps, {i \in DOMAIN comps : Strip(Lower(comps[i].frame)) = ql})

\* tier 2 without "and c not in exact_frame"
exact_name_no_exclusion(comps, ql, ef) ==
    Filter(comps, {i \in DOMAIN comps : Strip(Lower(comps[i].name)) = ql})

\* Tier 2: exact match on component name
exact_name(comps, ql, ef) ==
    Filter(comps, {i \in DOMAIN comps :
        /\ Strip(Lower(comps[i].name)) = ql
        /\ ~InList(comps, i, ef)})

\* Tier 3: frame starts with query
starts_frame(comps, ql, ef, en) ==
    Filter(comps, {i \in DOMAIN comps :
        /\ StartsWith(Lower(comps[i].frame), ql)
        /\ ~InList(comps, i, ef)
        /\ ~InList(comps, i, en)})

\* Tier 4: name starts with query
starts_name(comps, ql, ef, en, sf) ==
    Filter(comps, {i \in DOMAIN comps :
        /\ StartsWith(Lower(comps[i].name), ql)
        /\ ~InList(comps, i, ef)
        /\ ~InList(comps, i, en)
        /\ ~InList(comps, i, sf)})

\* seen = set(c["node_id"] for c in exact_frame + exact_name + starts_frame + starts_name)
seen_ids(comps, lst) == {comps[i].node_id : i \in Range(lst)}

\* the guard with >= for >
fuzzy_enabled_from_3(qc) == Len(qc) >= FuzzyMinLen

\* if len(query_clean) > 3
fuzzy_enabled(qc) == Len(qc) > FuzzyMinLen

\* the body of "for c in components" of tier 5, from listing position i on:
\* acc = [matches |-> fuzzy_matches so far, seen |-> seen so far]
RECURSIVE fuzzy_loop(_, _, _, _)
fuzzy_loop(comps, qc, i, acc) ==
    IF i > Len(comps) THEN acc
    ELSE IF comps[i].node_id \in acc.seen
         THEN fuzzy_loop(comps, qc, i + 1, acc)
    ELSE IF \/ Contains(clean(comps[i].frame), qc)
            \/ Contains(clean(comps[i].name), qc)
         THEN fuzzy_loop(comps, qc, i + 1,
                         [matches |-> Append(acc.matches, i),
                          seen |-> acc.seen \cup {comps[i].node_id}])
    ELSE fuzzy_loop(comps, qc, i + 1, acc)

\* Tier 5: fuzzy_matches, and seen as the tier leaves it
fuzzy(comps, qc, seen) ==
    LET start == [matches |-> <<>>, seen |-> seen]
    IN  IF fuzzy_enabled(qc) THEN fuzzy_loop(comps, qc, 1, start) ELSE start

\* Tier 6: plain containment of the lower-cased query in either name
contains(comps, ql, seen) ==
    Filter(comps, {i \in DOMAIN comps :
        /\ \/ Contains(Lower(comps[i].name), ql)
           \/ Contains(Lower(comps[i].frame), ql)
        /\ comps[i].node_id \notin seen})

\* the six lists search_components builds, in the order it builds them
search_tiers(comps, query) ==
    LET ql == query_lower(query)
        ef == exact_frame(comps, ql)
        en == exact_name(comps, ql, ef)
        sf == starts_frame(comps, ql, ef, en)
        sn == starts_name(comps, ql, ef, en, sf)
        fz == fuzzy(comps, clean(query), seen_ids(comps, ef \o en \o sf \o sn))
        ct == contains(comps, ql, fz.seen)
    IN  <<ef, en, sf, sn, fz.matches, ct>>

\* the name tiers ranked above the frame tiers
combine_names_first(t) == Take(t[2] \o t[1] \o t[4] \o t[3] \o t[5] \o t[6], ResultLimit)

\* results = exact_frame + exact_name + starts_frame + starts_name + fuzzy_matches + contains
\* and the cut results[:20]
combine(t) == Take(t[1] \o t[2] \o t[3] \o t[4] \o t[5] \o t[6], ResultLimit)

\* results = ... in the order of the names ranked above the frames
search_components_names_first(comps, query) ==
    combine_names_first(search_tiers(comps, query))

\* return results[:20]
search_components(comps, query) == combine(search_tiers(comps, query))

\* ------------------------------------------------ get_component_variants
\* Strategy 1: containing_frame matches exactly
frame_matches(comps, name_lower) ==
    Filter(comps, {i \in DOMAIN comps : Strip(Lower(comps[i].frame)) = name_lower})

\* Strategy 2: containing_frame starts with the name
frame_starts_with(comps, name_lower) ==
    Filter(comps, {i \in DOMAIN comps : StartsWith(Lower(comps[i].frame), name_lower)})

\* the group, newest member first
RECURSIVE Reverse(_)
Reverse(seq) == IF seq = <<>> THEN <<>> ELSE Append(Reverse(Tail(seq)), Head(seq))

frames_group_reversed(comps, lst, f) ==
    Reverse(SelectSeq(lst, LAMBDA i : comps[i].frame = f))

\* frames[f]: the members of lst whose containing_frame name is f
frames_group(comps, lst, f) == SelectSeq(lst, LAMBDA i : comps[i].frame = f)

\* the largest group, the one listed last among equals
best_frame_last(comps, lst) ==
    LET size(k) == Len(frames_group(comps, lst, comps[lst[k]].frame))
        last == CHOOSE k \in DOMAIN lst :
                    /\ \A j \in DOMAIN lst : size(j) <= size(k)
                    /\ \A j \in (k + 1)..Len(lst) : size(j) < size(k)
    IN  comps[lst[last]].frame

\* max(frames.keys(), key=lambda f: len(frames[f])): the keys of the dict are in
\* the order of their first member in lst, and max keeps the first maximum
best_frame(comps, lst) ==
    LET size(k) == Len(frames_group(comps, lst, comps[lst[k]].frame))
        first == CHOOSE k \in DOMAIN lst :
                    /\ \A j \in DOMAIN lst : size(j) <= size(k)
                    /\ \A j \in 1..(k - 1) : size(j) < size(k)
    IN  comps[lst[first]].frame

\* Strategy 3: exact component name
exact_name_matches(comps, name_lower) ==
    Filter(comps, {i \in DOMAIN comps : Strip(Lower(comps[i].name)) = name_lower})

\* Strategy 4: partial component name
partial_matches(comps, name_lower) ==
    Filter(comps, {i \in DOMAIN comps : Contains(Lower(comps[i].name), name_lower)})

\* [c for c in components if c.get("containing_frame", {}).get("name") == frame_name]
same_frame(comps, frame_name) ==
    Filter(comps, {i \in DOMAIN comps : comps[i].frame = frame_name})

\* the cascade with the starts-with strategy tried before the exact one
get_component_variants_starts_first(comps, component_name) ==
    LET name_lower == Strip(Lower(component_name))
        s1 == frame_matches(comps, name_lower)
        s2 == frame_starts_with(comps, name_lower)
    IN  IF s2 # <<>>
        THEN [list |-> frames_group(comps, s2, best_frame(comps, s2)), strategy |-> 2]
        ELSE [list |-> s1, strategy |-> IF s1 # <<>> THEN 1 ELSE 0]

\* the list returned, and the strategy whose return statement returned it
\* (0: the final "return partial_matches" with nothing found)
get_component_variants(comps, component_name) ==
    LET name_lower == Strip(Lower(component_name))
        s1 == frame_matches(comps, name_lower)
        s2 == frame_starts_with(comps, name_lower)
        s3 == exact_name_matches(comps, name_lower)
        s4 == partial_matches(comps, name_lower)
    IN  IF s1 # <<>> THEN [list |-> s1, strategy |-> 1]
        ELSE IF s2 # <<>>
             THEN [list |-> frames_group(comps, s2, best_frame(comps, s2)), strategy |-> 2]
        ELSE IF s3 # <<>>
             THEN [list |-> IF comps[s3[1]].frame # <<>>
                            THEN same_frame(comps, comps[s3[1]].frame) ELSE s3,
                   strategy |-> 3]
        ELSE IF s4 # <<>>
             THEN [list |-> IF comps[s4[1]].frame # <<>>
                            THEN same_frame(comps, comps[s4[1]].frame) ELSE s4,
                   strategy |-> 4]
        ELSE [list |-> s4, strategy |-> 0]

\* ------------------------------------------------- the content of a file
S_guide == <<103, 117, 105, 100, 101>>  \* "guide"
S_ButtonGuide == <<66, 117, 116, 116, 111, 110, 32, 47, 32, 71, 117, 105, 100, 101>>  \* "Button / Guide"
S_IconGuide == <<73, 99, 111, 110, 32, 71, 117, 105, 100, 101>>  \* "Icon Guide"
S_Guidelines == <<71, 117, 105, 100, 101, 108, 105, 110, 101, 115>>  \* "Guidelines"
S_ButtonGuide2 == <<66, 117, 116, 116, 111, 110, 32, 71, 117, 105, 100, 101>>  \* "Button Guide"
S_UseIt == <<32, 85, 115, 101, 32, 105, 116, 32>>  \* " Use it "
S_Blank == <<32, 32>>  \* "  "
S_Sizes == <<83, 105, 122, 101, 115>>  \* "Sizes"
S_Document == <<68, 111, 99, 117, 109, 101, 110, 116>>  \* "Document"
S_nn == <<10, 10>>                                                       \* "\n\n"

\* one HTTP request to the Figma API: the endpoint and the id asked for
\* (0: no id).  components: GET /files/{key}/components; file: GET
\* /files/{key}; nodes: GET /files/{key}/nodes?ids=id; images: GET
\* /images/{key}?ids=id
Req(api, id) == [api |-> api, id |-> id]

\* a node of the document as GET /files/{key}?depth=2 shows it, and the
\* characters of the TEXT nodes below it, in depth-first order, as GET
\* /files/{key}/nodes?ids=id shows them
DocNode(nm, id, chars) == [name |-> nm, id |-> id, chars |-> chars]

\* a node of a page as GET /files/{key}/nodes?ids=page_id&depth=3 shows it
PageNode(nm, id, type, pid) == [name |-> nm, id |-> id, type |-> type, page_id |-> pid]

\* name.lower().replace(" ", "")
lower_nospace(s) == Remove(Lower(s), 32)

\* _extract_text_from_node(node, texts) for a node whose TEXT descendants
\* have the characters chars: each is stripped and kept unless empty
extract_text_from_node(chars) ==
    SelectSeq([i \in DOMAIN chars |-> Strip(chars[i])], LAMBDA t : t # <<>>)

\* sep.join(texts)
RECURSIVE Join(_, _)
Join(texts, sep) ==
    IF texts = <<>> THEN <<>>
    ELSE IF Len(texts) = 1 THEN texts[1]
    ELSE texts[1] \o sep \o Join(Tail(texts), sep)

\* the first node whose name has "guide", whatever component it names
find_guide_frame_any(doc, component_name) ==
    LET hit == {i \in DOMAIN doc : Contains(Lower(doc[i].name), S_guide)}
    IN  IF hit = {} THEN 0 ELSE CHOOSE i \in hit : \A j \in hit : i <= j

\* find_guide_frame: the first node, depth first, whose name has "guide" and
\* the target name (spaces and case ignored); 0 when there is none
find_guide_frame(doc, component_name) ==
    LET hit == {i \in DOMAIN doc :
                   /\ Contains(Lower(doc[i].name), S_guide)
                   /\ Contains(lower_nospace(doc[i].name), lower_nospace(component_name))}
    IN  IF hit = {} THEN 0 ELSE CHOOSE i \in hit : \A j \in hit : i <= j

\* the rest of get_component_guide, given the position k of the guide frame
guide_text(doc, k) ==
    IF k = 0 \/ doc[k].id = 0
    THEN [guide |-> <<>>, calls |-> <<Req("file", 0)>>]
    ELSE [guide |-> Join(extract_text_from_node(doc[k].chars), S_nn),
          calls |-> <<Req("file", 0), Req("nodes", doc[k].id)>>]

\* get_component_guide(file_key, component_name): the guide (<<>>: None) and
\* the requests made
get_component_guide(doc, component_name) ==
    guide_text(doc, find_guide_frame(doc, component_name))

CoverTypes == {"FRAME", "COMPONENT_SET", "COMPONENT", "SECTION"}

\* find_top_level_frame(file_key, page_id, name): the id of the first node of
\* the page, depth first, of a cover type and with that name (spaces and case
\* ignored); 0 (None) when there is none or the page cannot be fetched
find_top_level_frame(page, page_id, name) ==
    LET hit == {i \in DOMAIN page :
                   /\ page[i].page_id = page_id
                   /\ lower_nospace(page[i].name) = lower_nospace(name)
                   /\ page[i].type \in CoverTypes}
    IN  IF hit = {} THEN 0 ELSE page[CHOOSE i \in hit : \A j \in hit : i <= j].id

\* get_node_image(file_key, node_id): images.get(node_id), 0 for None (also
\* when the status is not 200)
get_node_image(images, node_id) ==
    IF node_id \in DOMAIN images THEN images[node_id] ELSE 0

\* what GET /files/{key}/nodes?ids=id answers for a node: its type, name,
\* componentId (0: none) and the types of its componentPropertyDefinitions
NodeData(type, nm, cid, props) ==
    [known |-> TRUE, type |-> type, name |-> nm, component_id |-> cid, props |-> props]

NoNodeData == [known |-> FALSE, type |-> "", name |-> <<>>, component_id |-> 0, props |-> <<>>]

\* get_node_data(file_key, node_id): the document of the node, or None
get_node_data(nodes, node_id) ==
    IF node_id \in DOMAIN nodes THEN nodes[node_id] ELSE NoNodeData

\* ------------------------------------------------- get_component_details
\* the first search hit whose containing frame matches the query fuzzily
\* (0 when the loop ends without break)
frame_hit(comps, query, search_results) ==
    LET qc == clean(query)
        hit(k) == \/ Contains(clean(comps[search_results[k]].frame), qc)
                  \/ Contains(qc, clean(comps[search_results[k]].frame))
    IN  IF \E k \in DOMAIN search_results : hit(k)
        THEN CHOOSE k \in DOMAIN search_results :
                 hit(k) /\ \A j \in 1..(k - 1) : ~hit(j)
        ELSE 0

NoDetails ==
    [error |-> FALSE, found_name |-> <<>>, target_id |-> 0, search_matches |-> <<>>,
     variants_count |-> 0, page_id |-> 0, guide |-> <<>>, props_count |-> 0,
     summary_lines |-> 0, cover_id |-> 0, image_url |-> 0, image_from |-> "none",
     image_found_via |-> "target_id", has_link |-> FALSE, calls |-> <<>>]

\* step 2: target_name and target_id, from the k-th search hit when the loop
\* broke at it (k > 0), else from best_match = search_results[0]; an empty
\* target_name falls back to the query
select_target(comps, query, search_results, k) ==
    LET best_match == comps[search_results[1]]
        res == comps[search_results[k]]
        name1 == IF k = 0 THEN best_match.name ELSE res.frame
    IN  [name |-> IF name1 = <<>> THEN query ELSE name1,
         id |-> IF k = 0 THEN best_match.node_id
                ELSE IF res.frame_id # 0 THEN res.frame_id ELSE res.node_id]

\* the guide asked for again whenever the first lookup gave nothing
guide_retry_always(doc, target_name, query, g) ==
    IF g.guide = <<>>
    THEN [guide |-> get_component_guide(doc, query).guide,
          calls |-> g.calls \o get_component_guide(doc, query).calls]
    ELSE g

\* "if not guide and target_name.lower() != query.lower()": the guide is asked
\* for again, by the query; g is what the first call returned
guide_retry(doc, target_name, query, g) ==
    IF g.guide = <<>> /\ Lower(target_name) # Lower(query)
    THEN [guide |-> get_component_guide(doc, query).guide,
          calls |-> g.calls \o get_component_guide(doc, query).calls]
    ELSE g

\* a summary line for every property, whatever its type
node_props_line_each(nodes, target_id) ==
    IF target_id = 0 THEN [count |-> 0, lines |-> 0, calls |-> <<>>]
    ELSE [count |-> Len(get_node_data(nodes, target_id).props),
          lines |-> Len(get_node_data(nodes, target_id).props),
          calls |-> <<Req("nodes", target_id)>>]

\* step 3.5: the component properties of the target node
node_props(nodes, target_id) ==
    IF target_id = 0 THEN [count |-> 0, lines |-> 0, calls |-> <<>>]
    ELSE [count |-> Len(get_node_data(nodes, target_id).props),
          lines |-> Len(SelectSeq(get_node_data(nodes, target_id).props,
                                  LAMBDA t : t \in {"VARIANT", "BOOLEAN", "TEXT"})),
          calls |-> <<Req("nodes", target_id)>>]

\* the cover looked for only when the page id is known
cover_frame(page, page_id, target_name) ==
    IF page_id = 0 THEN 0 ELSE find_top_level_frame(page, page_id, target_name)

\* the image taken from the target with no regard to the cover
image_without_cover(images, page_id, target_id, cover_id, url1) ==
    [image_url |-> get_node_image(images, target_id),
     image_from |-> IF get_node_image(images, target_id) # 0 THEN "target_id" ELSE "none",
     image_found_via |-> "target_id",
     cover_id |-> cover_id,
     calls |-> <<Req("images", target_id)>>]

\* step 4 after the cover's render url1 (0 when there is no cover or it does
\* not render): the fallback to the target id, and _debug_info.image_found_via.
\* image_from tells which of the two assignments to image_url gave its value
image_resolve(images, page_id, target_id, cover_id, url1) ==
    LET fallback == url1 = 0 /\ target_id # 0
        image_url == IF fallback THEN get_node_image(images, target_id) ELSE url1
        again == page_id # 0 /\ image_url # 0 /\ target_id # 0
    IN  [image_url |-> image_url,
         image_from |-> IF url1 # 0 THEN "cover"
                        ELSE IF image_url # 0 THEN "target_id" ELSE "none",
         image_found_via |->
             IF /\ page_id # 0
                /\ image_url # 0
                /\ image_url # (IF target_id # 0 THEN get_node_image(images, target_id) ELSE 0)
             THEN "cover" ELSE "target_id",
         cover_id |-> cover_id,
         calls |-> (IF page_id # 0 THEN <<Req("nodes", page_id)>> ELSE <<>>)
                   \o (IF cover_id # 0 THEN <<Req("images", cover_id)>> ELSE <<>>)
                   \o (IF fallback THEN <<Req("images", target_id)>> ELSE <<>>)
                   \o (IF again THEN <<Req("images", target_id)>> ELSE <<>>)]

\* step 4: the cover's render, then image_resolve
find_image(images, page_id, target_id, cover_id) ==
    image_resolve(images, page_id, target_id, cover_id,
                  IF cover_id # 0 THEN get_node_image(images, cover_id) ELSE 0)

\* the dict returned, from the results of the steps
details_dict(comps, search_results, target, nvariants, g, p, im) ==
    [error |-> FALSE,
     found_name |-> target.name,
     target_id |-> target.id,
     search_matches |-> Take(search_results, 5),
     variants_count |-> nvariants,
     page_id |-> comps[search_results[1]].page_id,
     guide |-> g.guide,
     props_count |-> p.count,
     summary_lines |-> p.lines,
     cover_id |-> im.cover_id,
     image_url |-> im.image_url,
     image_from |-> im.image_from,
     image_found_via |-> im.image_found_via,
     has_link |-> target.id # 0,
     calls |-> <<Req("components", 0), Req("components", 0)>>
               \o g.calls \o p.calls \o im.calls]

\* steps 3 to 5 for a non-empty search: variants, guide, properties, image
details_found(comps, file, query, search_results, target) ==
    details_dict(comps, search_results, target,
        Len(get_component_variants(comps, target.name).list),
        guide_retry(file.doc, target.name, query,
                    get_component_guide(file.doc, target.name)),
        node_props(file.nodes, target.id),
        find_image(file.images, comps[search_results[1]].page_id, target.id,
                   cover_frame(file.page, comps[search_results[1]].page_id, target.name)))

\* the emptiness of the search looked at only after the guide was asked for
details_of_late_check(comps, file, query, search_results) ==
    IF search_results = <<>>
    THEN [NoDetails EXCEPT !.error = TRUE,
              !.calls = <<Req("components", 0)>> \o get_component_guide(file.doc, query).calls]
    ELSE details_found(comps, file, query, search_results,
             select_target(comps, query, search_results,
                           frame_hit(comps, query, search_results)))

\* the function after step 1, given the search results
details_of(comps, file, query, search_results) ==
    IF search_results = <<>>
    THEN [NoDetails EXCEPT !.error = TRUE, !.calls = <<Req("components", 0)>>]
    ELSE details_found(comps, file, query, search_results,
             select_target(comps, query, search_results,
                           frame_hit(comps, query, search_results)))

\* get_component_details(file_key, query) on a file with the listing comps and
\* the content file = [doc, page, images, nodes]
get_component_details(comps, file, query) ==
    details_of(comps, file, query, search_components(comps, query))

\* -------------------------------------------- _extract_tokens_recursive
\* str(n) for a natural number
RECURSIVE IntStr(_)
IntStr(n) == IF n < 10 THEN <<48 + n>> ELSE Append(IntStr(n \div 10), 48 + (n % 10))

\* f"{n:02x}" for n in 0..255
Hex2(n) ==
    LET digit(d) == IF d < 10 THEN 48 + d ELSE 87 + d
    IN  <<digit(n \div 16), digit(n % 16)>>

\* def _rgb_to_hex(r, g, b): f"#{int(r*255):02x}{int(g*255):02x}{int(b*255):02x}"
\* (a channel is 0 or 1 here, so int(x*255) is x*255)
rgb_to_hex(r, g, b) == <<35>> \o Hex2(r * 255) \o Hex2(g * 255) \o Hex2(b * 255)

\* seq[1] \o seq[2] \o ... for a sequence of sequences
RECURSIVE Flatten(_)
Flatten(seqs) == IF seqs = <<>> THEN <<>> ELSE Head(seqs) \o Flatten(Tail(seqs))

\* a < b as Python compares str: by code point, a proper prefix first
StrLess(a, b) ==
    \E k \in 1..Len(b) :
        /\ \A j \in 1..(k - 1) : j <= Len(a) /\ a[j] = b[j]
        /\ k > Len(a) \/ a[k] < b[k]

\* var_map of get_file_variables and style_map of get_file_styles: id -> name
\* (id 2 is known to neither)
S_brand == <<98, 114, 97, 110, 100, 47, 112, 114, 105, 109, 97, 114, 121>>  \* "brand/primary"
S_heading == <<72, 101, 97, 100, 105, 110, 103, 47, 72, 49>>                \* "Heading/H1"
S_Inter == <<73, 110, 116, 101, 114>>                                       \* "Inter"
var_map == [id \in {1} |-> S_brand]
style_map == [id \in {1} |-> S_heading]

\* the nodes a tree is built of.  boundVariables: prop -> alias (single) or
\* prop -> list of aliases; styles: prop -> style id; a fill or stroke paint:
\* type, visible, whether it has a color, the color's channels, opacity in %
Red == [solid |-> TRUE, visible |-> TRUE, has_color |-> TRUE,
        r |-> 1, g |-> 0, b |-> 0, opacity |-> 100]
Plain ==
    [type |-> "FRAME", visible |-> TRUE, boundVariables |-> <<>>, styles |-> <<>>,
     fills |-> <<>>, cornerRadius |-> 0, strokes |-> <<>>, strokeWeight |-> 1,
     fontFamily |-> <<>>, fontSize |-> 0, characters |-> <<>>]
S_fills == <<102, 105, 108, 108, 115>>           \* "fills"
S_fill == <<102, 105, 108, 108>>                 \* "fill"
S_radius == <<114, 97, 100, 105, 117, 115>> \* "radius"

\* a text node with raw values only: fill, radius, stroke and font
KindRaw == [Plain EXCEPT !.type = "TEXT", !.fills = <<Red>>, !.cornerRadius = 8,
                         !.strokes = <<Red>>, !.fontFamily = S_Inter, !.fontSize = 16]
\* a frame whose fill is bound to a variable (and to one the map does not know)
KindToken == [Plain EXCEPT !.fills = <<[Red EXCEPT !.opacity = 50]>>,
                           !.boundVariables =
                               <<[prop |-> S_fills, single |-> FALSE, ids |-> <<1, 2>>],
                                 [prop |-> S_radius, single |-> TRUE, ids |-> <<1>>]>>]
\* a frame whose fill carries a style reference, with a corner radius
KindStyle == [Plain EXCEPT !.styles = <<[prop |-> S_fill, id |-> 1]>>, !.cornerRadius = 8]
\* a hidden frame
KindHidden == [KindToken EXCEPT !.visible = FALSE]

NodeKinds == {KindRaw, KindToken, KindStyle, KindHidden}
ChainKinds == {KindRaw, KindToken}
S_A == <<65>>   \* "A"
S_B == <<66>>   \* "B"
NodeNames == {S_A, S_B}

\* the node dict: a kind, a name and the parent it is a child of (0: the root)
Node(kind, nm, p) ==
    [parent |-> p, name |-> nm, type |-> kind.type, visible |-> kind.visible,
     boundVariables |-> kind.boundVariables, styles |-> kind.styles, fills |-> kind.fills,
     cornerRadius |-> kind.cornerRadius, strokes |-> kind.strokes,
     strokeWeight |-> kind.strokeWeight, fontFamily |-> kind.fontFamily,
     fontSize |-> kind.fontSize, characters |-> kind.characters]

\* node.get("children", []): the children of n, in their order in the tree
children(t, n) == SelectSeq([i \in 1..Len(t) |-> i], LAMBDA i : t[i].parent = n)

\* curr_path = f"{path[-1]} > {node_name}" if path else node_name
curr_path(path, node_name) ==
    IF path # <<>> THEN path[Len(path)] \o <<32, 62, 32>> \o node_name ELSE node_name

\* an emitted string, with the node that emitted it and what it tells
Entry(n, origin, text) == [node |-> n, origin |-> origin, text |-> text]

\* 1. Bound Variables: the strings of one boundVariables item
bound_var_tokens(n, cp, item) ==
    IF item.single
    THEN IF item.ids[1] \in DOMAIN var_map
         THEN <<Entry(n, "variable",
                      cp \o <<32, 40>> \o item.prop \o <<41, 58, 32, 128313, 32>>
                         \o var_map[item.ids[1]])>>
         ELSE <<>>
    ELSE Flatten([i \in 1..Len(item.ids) |->
             IF item.ids[i] \in DOMAIN var_map
             THEN <<Entry(n, "variable",
                          cp \o <<32, 40>> \o item.prop \o <<91>> \o IntStr(i - 1)
                             \o <<93, 41, 58, 32, 128313, 32>> \o var_map[item.ids[i]])>>
             ELSE <<>>])

\* 2. Styles: the string of one styles item
style_tokens(n, cp, item) ==
    IF item.id \in DOMAIN style_map
    THEN <<Entry(n, "style",
                 cp \o <<32, 40>> \o item.prop \o <<41, 58, 32, 128312, 32>>
                    \o style_map[item.id])>>
    ELSE <<>>

\* if len(path) < 3
raw_allowed(path) == Len(path) < RawDepthLimit

\* the recursion goes one level further
may_recurse_one_more(path) == Len(path) <= RecurseDepthLimit

\* if len(path) < 5
may_recurse(path) == Len(path) < RecurseDepthLimit

\* 3. Raw Properties: fills, corner radius, strokes, text properties
raw_properties(n, cp, node) ==
    Flatten([i \in 1..Len(node.fills) |->
        LET fill == node.fills[i]
        IN  IF fill.solid /\ fill.visible /\ fill.has_color
            THEN <<Entry(n, "fill",
                         cp \o <<32, 40, 102, 105, 108, 108, 41, 58, 32, 127912, 32>>
                            \o rgb_to_hex(fill.r, fill.g, fill.b)
                            \o (IF fill.opacity < 100
                                THEN <<32, 40>> \o IntStr(fill.opacity) \o <<37, 41>>
                                ELSE <<>>))>>
            ELSE <<>>])
    \o (IF node.cornerRadius > 0
        THEN <<Entry(n, "radius",
                     cp \o <<32, 40, 114, 97, 100, 105, 117, 115, 41, 58, 32, 128208, 32>>
                        \o IntStr(node.cornerRadius) \o <<112, 120>>)>>
        ELSE <<>>)
    \o Flatten([i \in 1..Len(node.strokes) |->
        LET stroke == node.strokes[i]
        IN  IF stroke.solid /\ stroke.visible /\ stroke.has_color
            THEN <<Entry(n, "stroke",
                         cp \o <<32, 40, 115, 116, 114, 111, 107, 101, 41, 58, 32,
                                 9999, 65039, 32>>
                            \o rgb_to_hex(stroke.r, stroke.g, stroke.b)
                            \o <<32, 40>> \o IntStr(node.strokeWeight) \o <<112, 120, 41>>)>>
            ELSE <<>>])
    \o (IF node.type = "TEXT" /\ (node.fontFamily # <<>> \/ node.fontSize # 0)
        THEN <<Entry(n, "font",
                     cp \o <<32, 40, 116, 101, 120, 116, 41, 58, 32, 128292, 32>>
                        \o node.fontFamily \o <<32>> \o IntStr(node.fontSize)
                        \o <<112, 120>>)>>
        ELSE <<>>)

\* _extract_tokens_recursive(node, var_map, style_map, tokens, raw_props, path):
\* acc holds the two lists the calls append to, and the nodes called on
RECURSIVE extract_tokens_recursive(_, _, _, _)
RECURSIVE extract_children(_, _, _, _)
extract_tokens_recursive(t, n, path, acc) ==
    LET node == t[n]
        cp == curr_path(path, node.name)
        here == [acc EXCEPT !.visited = Append(@, n)]
    IN  IF ~node.visible THEN here
        ELSE
        LET toks == Flatten([i \in 1..Len(node.boundVariables) |->
                        bound_var_tokens(n, cp, node.boundVariables[i])])
                    \o Flatten([i \in 1..Len(node.styles) |->
                        style_tokens(n, cp, node.styles[i])])
            raws == IF raw_allowed(path) THEN raw_properties(n, cp, node) ELSE <<>>
            own == [here EXCEPT !.tokens = @ \o toks, !.raw_props = @ \o raws]
        IN  IF may_recurse(path)
            THEN extract_children(t, children(t, n), Append(path, node.name), own)
            ELSE own

\* for child in node.get("children", []): _extract_tokens_recursive(child, ...)
extract_children(t, kids, path, acc) ==
    IF kids = <<>> THEN acc
    ELSE extract_children(t, Tail(kids), path,
                          extract_tokens_recursive(t, Head(kids), path, acc))

NoTokens == [tokens |-> <<>>, raw_props |-> <<>>, visited |-> <<>>]

\* ------------------------------------------------- _extract_text_from_node
\* a visible and a hidden text node, a text node of blanks, a hidden frame
KindText == [Plain EXCEPT !.type = "TEXT", !.characters = <<32, 85, 115, 101, 32>>]
KindHiddenText == [KindText EXCEPT !.visible = FALSE, !.characters = <<78, 111>>]
KindBlankText == [KindText EXCEPT !.characters = <<32, 32>>]
KindHiddenFrame == [Plain EXCEPT !.visible = FALSE]
TextKinds == {KindText, KindHiddenText, KindBlankText, KindHiddenFrame, Plain}

\* if depth > 20: return
too_deep(depth) == depth > TextDepthLimit

\* _extract_text_from_node(node, texts, depth) on node n of the tree t: texts
\* gets the stripped characters of every TEXT node met, with the node it is of
RECURSIVE extract_text_recursive(_, _, _, _)
RECURSIVE extract_text_children(_, _, _, _)
extract_text_recursive(t, n, texts, depth) ==
    IF too_deep(depth) THEN texts
    ELSE extract_text_children(t, children(t, n),
             IF t[n].type = "TEXT" /\ Strip(t[n].characters) # <<>>
             THEN Append(texts, [node |-> n, text |-> Strip(t[n].characters)])
             ELSE texts,
             depth)

\* for child in node.get("children", []): _extract_text_from_node(child, texts, depth + 1)
extract_text_children(t, kids, texts, depth) ==
    IF kids = <<>> THEN texts
    ELSE extract_text_children(t, Tail(kids),
             extract_text_recursive(t, Head(kids), texts, depth + 1), depth)

\* ------------------------------------- generate_figma_link, parse_figma_url
S_link_prefix == <<104, 116, 116, 112, 115, 58, 47, 47, 119, 119, 119, 46, 102, 105, 103, 109, 97, 46, 99, 111, 109, 47, 100, 101, 115, 105, 103, 110, 47>>  \* "https://www.figma.com/design/"
S_node_id_param == <<63, 110, 111, 100, 101, 45, 105, 100, 61>>  \* "?node-id="
S_node_id_eq == <<110, 111, 100, 101, 45, 105, 100, 61>>  \* "node-id="
S_slash_file == <<47, 102, 105, 108, 101, 47>>  \* "/file/"
S_slash_design == <<47, 100, 101, 115, 105, 103, 110, 47>>  \* "/design/"
S_Key22 == <<102, 82, 105, 51, 72, 65, 103, 120, 76, 68, 117, 72, 87, 52, 77, 74, 81, 80, 102, 53, 114, 51>>  \* "fRi3HAgxLDuHW4MJQPf5r3"
S_Key23 == <<67, 66, 83, 48, 113, 90, 122, 54, 108, 113, 111, 85, 50, 77, 104, 51, 83, 116, 78, 119, 86, 55, 120>>  \* "CBS0qZz6lqoU2Mh3StNwV7x"
S_Key21 == <<102, 82, 105, 51, 72, 65, 103, 120, 76, 68, 117, 72, 87, 52, 77, 74, 81, 80, 102, 53, 114>>  \* "fRi3HAgxLDuHW4MJQPf5r"
S_file_prefix == <<104, 116, 116, 112, 115, 58, 47, 47, 119, 119, 119, 46, 102, 105, 103, 109, 97, 46, 99, 111, 109, 47, 102, 105, 108, 101, 47>>  \* "https://www.figma.com/file/"
S_proto_prefix == <<104, 116, 116, 112, 115, 58, 47, 47, 119, 119, 119, 46, 102, 105, 103, 109, 97, 46, 99, 111, 109, 47, 112, 114, 111, 116, 111, 47>>  \* "https://www.figma.com/proto/"
S_KeyDash == <<102, 82, 105, 51, 72, 65, 103, 120, 76, 45, 117, 72, 87, 52, 77, 74, 81, 80, 102, 53, 114, 51>>  \* "fRi3HAgxL-uHW4MJQPf5r3"
S_id_12_34 == <<49, 50, 58, 51, 52>>  \* "12:34"
S_id_1_2 == <<49, 58, 50>>  \* "1:2"
S_id_007_0 == <<48, 48, 55, 58, 48>>  \* "007:0"
S_id_nested == <<73, 53, 58, 54, 59, 55, 58, 56>>  \* "I5:6;7:8"
S_id_dashed == <<49, 50, 45, 51, 52>>  \* "12-34"
S_id_1_2_3 == <<49, 58, 50, 58, 51>>  \* "1:2:3"
S_tail_kit == <<47, 66, 97, 110, 107, 45, 48, 50, 45, 85, 73, 45, 75, 105, 116, 63, 116, 121, 112, 101, 61, 100, 101, 115, 105, 103, 110, 38, 110, 111, 100, 101, 45, 105, 100, 61, 49, 53, 37, 51, 65, 54, 49, 38, 109, 111, 100, 101, 61, 100, 101, 115, 105, 103, 110>>  \* "/Bank-02-UI-Kit?type=design&node-id=15%3A61&mode=design"
S_tail_new == <<47, 75, 105, 116, 63, 110, 111, 100, 101, 45, 105, 100, 61, 49, 53, 45, 54, 49, 38, 116, 61, 120>>  \* "/Kit?node-id=15-61&t=x"
S_tail_three == <<63, 110, 111, 100, 101, 45, 105, 100, 61, 49, 45, 50, 45, 51>>  \* "?node-id=1-2-3"
S_tail_word == <<63, 110, 111, 100, 101, 45, 105, 100, 61, 97, 98, 99, 45, 100, 101, 102>>  \* "?node-id=abc-def"
S_tail_mixed == <<63, 110, 111, 100, 101, 45, 105, 100, 61, 49, 37, 51, 65, 50, 45, 51>>  \* "?node-id=1%3A2-3"
S_tail_nested == <<63, 110, 111, 100, 101, 45, 105, 100, 61, 73, 53, 45, 54, 37, 51, 66, 55, 45, 56>>  \* "?node-id=I5-6%3B7-8"
S_tail_empty == <<63, 110, 111, 100, 101, 45, 105, 100, 61, 38, 116, 61, 49>>  \* "?node-id=&t=1"
S_tail_none == <<47, 75, 105, 116, 63, 116, 61, 49>>  \* "/Kit?t=1"
S_tail_plain == <<63, 110, 111, 100, 101, 45, 105, 100, 61, 49, 50>>  \* "?node-id=12"
S_tail_lower == <<63, 110, 111, 100, 101, 45, 105, 100, 61, 49, 53, 37, 51, 97, 54, 49>>  \* "?node-id=15%3a61"

KeyPool == {S_Key22, S_Key23, S_Key21, S_KeyDash}

\* node ids a link is generated for (<<>>: None or "")
NodeIdPool ==
    {S_id_12_34, S_id_1_2, S_id_007_0, S_id_nested, S_id_dashed, S_id_1_2_3, <<>>}

\* URLs a user pastes: a prefix, a file key and the rest of the URL
UrlPrefixPool == {S_link_prefix, S_file_prefix, S_proto_prefix}
UrlTailPool ==
    {S_tail_kit, S_tail_new, S_tail_three, S_tail_word, S_tail_mixed,
     S_tail_nested, S_tail_empty, S_tail_none, S_tail_plain, S_tail_lower}

\* str.replace(a, b) for single characters a and b
replace_char(s, a, b) == [i \in 1..Len(s) |-> IF s[i] = a THEN b ELSE s[i]]

\* url_node_id = node_id.replace(":", "-") if node_id else ""
\* f"https://www.figma.com/design/{file_key}?node-id={url_node_id}"
generate_figma_link(file_key, node_id) ==
    S_link_prefix \o file_key \o S_node_id_param \o replace_char(node_id, 58, 45)

\* the regex classes [a-zA-Z0-9] and [^&] (over the ASCII range)
Alnum == (48..57) \cup (65..90) \cup (97..122)
NotAmp == (0..127) \ {38}

\* the pattern p matches s at position i
MatchAt(s, i, p) == i >= 1 /\ i + Len(p) - 1 <= Len(s) /\ SubSeq(s, i, i + Len(p) - 1) = p

\* the length of the longest run of characters of cls in s from position i
\* (a greedy cls* at i)
Run(s, i, cls) ==
    CHOOSE n \in 0..(Len(s) - i + 1) :
        /\ \A j \in i..(i + n - 1) : s[j] \in cls
        /\ i + n > Len(s) \/ s[i + n] \notin cls

\* the least element of a non-empty set of positions: re.search returns the
\* leftmost match
Leftmost(S) == CHOOSE i \in S : \A j \in S : i <= j

\* re.search(r"/(?:file|design)/([a-zA-Z0-9]{22,})", url): the positions at
\* which the pattern matches
key_matches(url) ==
    {i \in 1..Len(url) :
        \/ MatchAt(url, i, S_slash_file) /\ Run(url, i + 6, Alnum) >= KeyMinLen
        \/ MatchAt(url, i, S_slash_design) /\ Run(url, i + 8, Alnum) >= KeyMinLen}

\* key_match.group(1) of the match at position i
key_group(url, i) ==
    IF MatchAt(url, i, S_slash_file)
    THEN SubSeq(url, i + 6, i + 5 + Run(url, i + 6, Alnum))
    ELSE SubSeq(url, i + 8, i + 7 + Run(url, i + 8, Alnum))

\* re.search(r"node-id=([^&]+)", url): the positions at which it matches
node_matches(url) ==
    {i \in 1..Len(url) : MatchAt(url, i, S_node_id_eq) /\ Run(url, i + 8, NotAmp) >= 1}

\* node_match.group(1) of the match at position i
node_group(url, i) == SubSeq(url, i + 8, i + 7 + Run(url, i + 8, NotAmp))

\* the value of a hexadecimal digit, -1 for any other character
HexVal(ch) ==
    IF ch \in 48..57 THEN ch - 48
    ELSE IF ch \in 65..70 THEN ch - 55
    ELSE IF ch \in 97..102 THEN ch - 87
    ELSE -1

\* urllib.parse.unquote: every %XX with two hexadecimal digits becomes the
\* byte XX; a byte above 127 that is no valid UTF-8 on its own decodes to
\* U+FFFD
RECURSIVE unquote(_)
unquote(s) ==
    IF s = <<>> THEN <<>>
    ELSE IF s[1] = 37 /\ Len(s) >= 3 /\ HexVal(s[2]) >= 0 /\ HexVal(s[3]) >= 0
         THEN <<IF HexVal(s[2]) >= 8 THEN 65533 ELSE 16 * HexVal(s[2]) + HexVal(s[3])>>
              \o unquote(SubSeq(s, 4, Len(s)))
    ELSE <<s[1]>> \o unquote(Tail(s))

\* the raw id returned as it is
node_id_unchanged(raw_id) == raw_id

\* the rewrite wherever the id has a dash
node_id_any_dash(raw_id) ==
    IF 45 \in Range(raw_id) THEN replace_char(raw_id, 45, 58) ELSE raw_id

\* raw_id.replace("-", ":") if ":" not in raw_id and "-" in raw_id else raw_id
normalize_node_id(raw_id) ==
    IF 58 \notin Range(raw_id) /\ 45 \in Range(raw_id)
    THEN replace_char(raw_id, 45, 58) ELSE raw_id

NoParse == [done |-> FALSE, error |-> FALSE, file_key |-> <<>>, has_node |-> FALSE,
            raw_id |-> <<>>, node_id |-> <<>>]

\* parse_figma_url(url); node_id None is has_node = FALSE.  raw_id is the
\* local variable of that name
parse_figma_url(url) ==
    IF key_matches(url) = {} THEN [NoParse EXCEPT !.done = TRUE, !.error = TRUE]
    ELSE IF node_matches(url) = {}
         THEN [NoParse EXCEPT !.done = TRUE,
                              !.file_key = key_group(url, Leftmost(key_matches(url)))]
    ELSE [done |-> TRUE, error |-> FALSE,
          file_key |-> key_group(url, Leftmost(key_matches(url))),
          has_node |-> TRUE,
          raw_id |-> unquote(node_group(url, Leftmost(node_matches(url)))),
          node_id |-> normalize_node_id(
                          unquote(node_group(url, Leftmost(node_matches(url)))))]

\* ------------------------------------- search_patterns, get_pattern_info
S_Overview == <<79, 118, 101, 114, 118, 105, 101, 119>>  \* "Overview"
S_Rules == <<82, 117, 108, 101, 115>>  \* "Rules"
S_Guide == <<71, 117, 105, 100, 101>>  \* "Guide"
S_Onboarding == <<79, 110, 98, 111, 97, 114, 100, 105, 110, 103>>  \* "Onboarding"
S_OnboardingFlow == <<79, 110, 98, 111, 97, 114, 100, 105, 110, 103, 32, 102, 108, 111, 119>>  \* "Onboarding flow"
S_Payments == <<80, 97, 121, 109, 101, 110, 116, 115>>  \* "Payments"
S_Onb == <<111, 110, 98>>  \* "onb"
S_Pay == <<80, 97, 121>>  \* "Pay"
S_hashes == <<35, 35, 35, 32>>  \* "### "
S_Intro == <<73, 110, 116, 114, 111>>  \* "Intro"
S_Do == <<68, 111>>  \* "Do"
S_n == <<10>>                                                            \* "\n"

\* a page of the patterns file (a CANVAS child of the document) and a child
\* of a page: its name, id, type, absoluteBoundingBox.x and the characters of
\* the TEXT nodes below it, depth first
Page(nm, id, kids) == [name |-> nm, id |-> id, children |-> kids]
Child(nm, id, type, x, chars) ==
    [name |-> nm, id |-> id, type |-> type, x |-> x, chars |-> chars]

\* p in lst, for a list lst of pattern dicts {name, id, type}
PatternInList(pages, i, lst) ==
    \E j \in Range(lst) : pages[j].name = pages[i].name /\ pages[j].id = pages[i].id

\* search_patterns(query): exact + starts + contains, as positions in the
\* list of pages
pattern_exact(pages, ql) ==
    Filter(pages, {i \in DOMAIN pages : Strip(Lower(pages[i].name)) = ql})

pattern_starts(pages, ql, exact) ==
    Filter(pages, {i \in DOMAIN pages :
        StartsWith(Lower(pages[i].name), ql) /\ ~PatternInList(pages, i, exact)})

pattern_contains(pages, ql, exact, starts) ==
    Filter(pages, {i \in DOMAIN pages :
        /\ Contains(Lower(pages[i].name), ql)
        /\ ~PatternInList(pages, i, exact)
        /\ ~PatternInList(pages, i, starts)})

pattern_tiers(pages, ql, exact, starts) ==
    exact \o starts \o pattern_contains(pages, ql, exact, starts)

search_patterns(pages, query) ==
    pattern_tiers(pages, query_lower(query), pattern_exact(pages, query_lower(query)),
                  pattern_starts(pages, query_lower(query),
                                 pattern_exact(pages, query_lower(query))))

\* all_frames: the FRAME and SECTION children, in page order
all_frames(kids) == SelectSeq(kids, LAMBDA c : c.type \in {"FRAME", "SECTION"})

\* "guide" in child_name or child_name == page_name.lower()
is_guide_frame(c, page_name) ==
    Contains(Lower(c.name), S_guide) \/ Lower(c.name) = Lower(page_name)

\* the last frame with "guide" in its name, whatever the page is called
guide_frame_by_word(frames, page_name) ==
    LET g == {i \in DOMAIN frames : Contains(Lower(frames[i].name), S_guide)}
    IN  IF g = {} THEN 0 ELSE frames[CHOOSE i \in g : \A j \in g : j <= i].id

\* guide_frame_id: the id of the last FRAME or SECTION child that is a guide
\* frame (every one overwrites the variable); 0 when there is none
guide_frame(frames, page_name) ==
    LET g == {i \in DOMAIN frames : is_guide_frame(frames[i], page_name)}
    IN  IF g = {} THEN 0 ELSE frames[CHOOSE i \in g : \A j \in g : j <= i].id

\* examples: the frames that are no guide frame
examples_of(frames, page_name) ==
    SelectSeq(frames, LAMBDA c : ~is_guide_frame(c, page_name))

\* f goes after the frames of the sorted list s that are not right of it
insert_by_x(s, f) ==
    SelectSeq(s, LAMBDA c : c.x <= f.x) \o <<f>> \o SelectSeq(s, LAMBDA c : c.x > f.x)

\* the frames in page order, unsorted
unsorted(frames) == frames

\* all_frames.sort(key=lambda x: x[0]): ascending x, stable
RECURSIVE sort_by_x(_)
sort_by_x(frames) ==
    IF frames = <<>> THEN <<>>
    ELSE insert_by_x(sort_by_x(SubSeq(frames, 1, Len(frames) - 1)), frames[Len(frames)])

\* f"### {f_name}\n" + "\n".join(f_texts)
section_text(f_name, f_texts) == S_hashes \o f_name \o S_n \o Join(f_texts, S_n)

\* all_texts: one section for every frame that has text
RECURSIVE all_texts(_)
all_texts(frames) ==
    IF frames = <<>> THEN <<>>
    ELSE (IF extract_text_from_node(frames[1].chars) # <<>>
          THEN <<section_text(frames[1].name, extract_text_from_node(frames[1].chars))>>
          ELSE <<>>)
         \o all_texts(Tail(frames))

\* Case A: the text of the explicit guide frame
guide_of_frame(frames, guide_frame_id) ==
    LET k == CHOOSE i \in DOMAIN frames : frames[i].id = guide_frame_id
    IN  Join(extract_text_from_node(frames[k].chars), S_nn)

\* Case B: the text of the first 10 frames, left to right
guide_of_all(frames) == Join(all_texts(Take(sort_by_x(frames), GuideFrameLimit)), S_nn)

NoPattern ==
    [done |-> FALSE, error |-> FALSE, name |-> <<>>, page_id |-> 0, explicit |-> FALSE,
     guide |-> <<>>, examples |-> <<>>, image_url |-> 0, related |-> <<>>, calls |-> <<>>]

\* steps 2 to 5 of get_pattern_info for the page best_match, given its FRAME
\* and SECTION children and guide_frame_id
pattern_dict(pages, images, found, frames, guide_frame_id) ==
    LET page == pages[found[1]]
        render_frame_id == IF guide_frame_id # 0 THEN guide_frame_id
                           ELSE IF frames # <<>> THEN sort_by_x(frames)[1].id ELSE 0
    IN  [done |-> TRUE, error |-> FALSE,
         name |-> page.name,
         page_id |-> page.id,
         explicit |-> guide_frame_id # 0,
         guide |-> IF guide_frame_id # 0 THEN guide_of_frame(frames, guide_frame_id)
                   ELSE guide_of_all(frames),
         examples |-> [i \in DOMAIN Take(examples_of(frames, page.name), 10) |->
                          examples_of(frames, page.name)[i].name],
         image_url |-> IF render_frame_id # 0 THEN get_node_image(images, render_frame_id)
                       ELSE 0,
         related |-> [i \in 1..(IF Len(found) - 1 < 4 THEN Len(found) - 1 ELSE 4) |->
                         pages[found[i + 1]].name],
         calls |-> <<Req("file", 0), Req("nodes", page.id)>>
                   \o (IF guide_frame_id # 0 THEN <<Req("nodes", guide_frame_id)>>
                       ELSE IF frames # <<>>
                       THEN <<Req("nodes", [i \in DOMAIN Take(sort_by_x(frames), GuideFrameLimit) |->
                                               Take(sort_by_x(frames), GuideFrameLimit)[i].id])>>
                       ELSE <<>>)
                   \o (IF render_frame_id # 0 THEN <<Req("images", render_frame_id)>> ELSE <<>>)]

\* get_pattern_info after the search
pattern_of(pages, images, found) ==
    IF found = <<>>
    THEN [NoPattern EXCEPT !.done = TRUE, !.error = TRUE, !.calls = <<Req("file", 0)>>]
    ELSE pattern_dict(pages, images, found, all_frames(pages[found[1]].children),
                      guide_frame(all_frames(pages[found[1]].children), pages[found[1]].name))

\* get_pattern_info(pattern_name) on the patterns file with these pages
get_pattern_info(pages, images, pattern_name) ==
    pattern_of(pages, images, search_patterns(pages, pattern_name))

\* ------------------------------------------------------ analyze_figma_url
S_url_design == <<104, 116, 116, 112, 115, 58, 47, 47, 119, 119, 119, 46, 102, 105, 103, 109, 97, 46, 99, 111, 109, 47, 100, 101, 115, 105, 103, 110, 47, 102, 82, 105, 51, 72, 65, 103, 120, 76, 68, 117, 72, 87, 52, 77, 74, 81, 80, 102, 53, 114, 51, 47, 75, 105, 116, 63, 110, 111, 100, 101, 45, 105, 100, 61>>  \* "https://www.figma.com/design/fRi3HAgxLDuHW4MJQPf5r3/Kit?node-id="
S_url_nokey == <<104, 116, 116, 112, 115, 58, 47, 47, 119, 119, 119, 46, 102, 105, 103, 109, 97, 46, 99, 111, 109, 47, 100, 101, 115, 105, 103, 110, 47, 115, 104, 111, 114, 116, 47, 75, 105, 116, 63, 110, 111, 100, 101, 45, 105, 100, 61, 48, 45, 53, 48>>  \* "https://www.figma.com/design/short/Kit?node-id=0-50"
S_url_nonode == <<104, 116, 116, 112, 115, 58, 47, 47, 119, 119, 119, 46, 102, 105, 103, 109, 97, 46, 99, 111, 109, 47, 102, 105, 108, 101, 47, 102, 82, 105, 51, 72, 65, 103, 120, 76, 68, 117, 72, 87, 52, 77, 74, 81, 80, 102, 53, 114, 51, 47, 75, 105, 116, 63, 116, 61, 49>>  \* "https://www.figma.com/file/fRi3HAgxLDuHW4MJQPf5r3/Kit?t=1"
S_url_i50 == <<48, 45, 53, 48, 38, 116, 61, 49>>  \* "0-50&t=1"
S_url_i51 == <<48, 37, 51, 65, 53, 49>>  \* "0%3A51"
S_url_i52 == <<48, 58, 53, 50>>  \* "0:52"
S_url_c2 == <<48, 45, 50>>  \* "0-2"
S_url_c10 == <<48, 45, 49, 48, 38, 109, 111, 100, 101, 61, 100, 101, 115, 105, 103, 110>>  \* "0-10&mode=design"
S_url_i99 == <<48, 45, 57, 57>>  \* "0-99"
S_url_nested == <<73, 48, 45, 53, 48, 59, 48, 45, 50>>  \* "I0-50;0-2"
S_zero_colon == <<48, 58>>  \* "0:"

\* the nodes of the file have the ids "0:n", n written in decimal without a
\* leading zero: node_number is n for such an id and 0 for any other text (no
\* node of the file has it), node_id_text is the id of node n
RECURSIVE DecVal(_)
DecVal(s) ==
    IF s = <<>> THEN 0 ELSE 10 * DecVal(SubSeq(s, 1, Len(s) - 1)) + (s[Len(s)] - 48)

node_number(node_id) ==
    IF /\ Len(node_id) > 2
       /\ SubSeq(node_id, 1, 2) = S_zero_colon
       /\ \A i \in 3..Len(node_id) : node_id[i] \in 48..57
       /\ node_id[3] # 48
    THEN DecVal(SubSeq(node_id, 3, Len(node_id)))
    ELSE 0

node_id_text(n) ==
    S_zero_colon \o (IF n < 10 THEN <<48 + n>> ELSE <<48 + (n \div 10), 48 + (n % 10)>>)

NoAnalysis ==
    [done |-> FALSE, error |-> FALSE, analysis_type |-> "", target_name |-> <<>>,
     target_id |-> <<>>, details_called |-> FALSE, details |-> NoDetails, calls |-> <<>>]

\* the target of a node that is taken as it is
analyze_target_as_linked(nodes, node_id, node_data) ==
    [target_id |-> node_id, target_name |-> node_data.name, calls |-> <<>>]

\* "Resolve target ID (Master Component)": the node itself, or for an
\* INSTANCE with a componentId the master component, whose name is taken when
\* its node can be fetched
analyze_target(nodes, node_id, node_data) ==
    IF node_data.type = "INSTANCE" /\ node_data.component_id # 0
    THEN [target_id |-> node_id_text(node_data.component_id),
          target_name |-> IF get_node_data(nodes, node_data.component_id).known
                          THEN get_node_data(nodes, node_data.component_id).name
                          ELSE node_data.name,
          calls |-> <<Req("nodes", node_data.component_id)>>]
    ELSE [target_id |-> node_id, target_name |-> node_data.name, calls |-> <<>>]

\* step 4 and the dict returned, given the target t
analysis_dict(comps, file, node_id, node_data, t) ==
    [done |-> TRUE, error |-> FALSE,
     analysis_type |-> IF node_data.type = "INSTANCE" THEN "Instance Link"
                       ELSE "Component Link",
     target_name |-> t.target_name,
     target_id |-> t.target_id,
     details_called |-> TRUE,
     details |-> get_component_details(comps, file, t.target_name),
     calls |-> <<Req("nodes", node_number(node_id))>> \o t.calls
               \o get_component_details(comps, file, t.target_name).calls]

\* step 2 on: the node is fetched; without it the function returns an error
analysis_of_node(comps, file, node_id, node_data) ==
    IF ~node_data.known
    THEN [NoAnalysis EXCEPT !.done = TRUE, !.error = TRUE,
                            !.calls = <<Req("nodes", node_number(node_id))>>]
    ELSE analysis_dict(comps, file, node_id, node_data,
                       analyze_target(file.nodes, node_id, node_data))

\* after step 1: the error of parse_figma_url is returned as it is
analysis_of(comps, file, parsed_url) ==
    IF parsed_url.error
    THEN [NoAnalysis EXCEPT !.done = TRUE, !.error = TRUE]
    ELSE analysis_of_node(comps, file, parsed_url.node_id,
                          get_node_data(file.nodes, node_number(parsed_url.node_id)))

\* analyze_figma_url(url) for a URL of the file with the listing comps and the
\* content file
analyze_figma_url(comps, file, link_url) ==
    analysis_of(comps, file, parse_figma_url(link_url))

\* the URLs analysed: nodes 50, 51, 52 are instances, 2 and 10 are not, 99 and
\* "I0:50;0:2" are no nodes of the file
AnalyzeUrlPool ==
    {S_url_design \o t : t \in {S_url_i50, S_url_i51, S_url_i52, S_url_c2, S_url_c10,
                                S_url_i99, S_url_nested}}
    \cup {S_url_nokey, S_url_nonode}

\* ---------------------------------------------------- search_design_system
ComponentLimit == 8   \* components[:8]
OrganismLimit == 5    \* organisms[:5]
PatternLimit == 5     \* patterns[:5]

\* the three searches handed to asyncio.gather, in the order of its arguments
Branches == <<"components", "organisms", "patterns">>

\* a task of the gather: not started, waiting for the answer of the API,
\* returned with its hits (positions in the listing of its file), or ended by
\* the exception of raise_for_status; status is the status of the answer
NewTask == [pc |-> "new", result |-> <<>>, status |-> 0]

NoUniversal ==
    [pc |-> "idle",
     tasks |-> [b \in Range(Branches) |-> NewTask],
     finished |-> <<>>,
     results |-> <<>>,
     error |-> ""]

\* c.get("containing_frame", {}).get("name") or c.get("name")
entry_name(c) == IF c.frame # <<>> THEN c.frame ELSE c.name

\* the entries of a branch: the first hits of its search, at most limit
component_entries(type, comps, hits, limit) ==
    [i \in DOMAIN Take(hits, limit) |->
        [type |-> type, name |-> entry_name(comps[hits[i]]), node_id |-> comps[hits[i]].node_id]]

pattern_entries(pages, hits, limit) ==
    [i \in DOMAIN Take(hits, limit) |->
        [type |-> "pattern", name |-> pages[hits[i]].name, node_id |-> pages[hits[i]].id]]

\* results: the components, then the organisms, then the patterns
design_system_results(comps, orgs, pages, tasks) ==
    component_entries("component", comps, tasks["components"].result, ComponentLimit)
    \o component_entries("organism", orgs, tasks["organisms"].result, OrganismLimit)
    \o pattern_entries(pages, tasks["patterns"].result, PatternLimit)

\* the gather resumed as soon as one task has returned
gather_first(tasks) == \E b \in DOMAIN tasks : tasks[b].pc = "done"

\* await asyncio.gather(...): resumed when every task has returned
gather(tasks) == \A b \in DOMAIN tasks : tasks[b].pc = "done"

\* the answers of the API to the listing request of a branch
BranchStatusPool == {200, 404}

\* an answer that is taken whatever its status
raise_for_status_never(status) == FALSE

\* resp.raise_for_status(): raises on a client or server error status
raise_for_status(status) == status \in 400..599

\* the exception the gather raises: that of the first task that ended with one
gather_exception(tasks, finished) ==
    LET failed == SelectSeq(finished, LAMBDA b : tasks[b].pc = "failed")
    IN  IF failed = <<>> THEN "" ELSE failed[1]

\* what the search of branch b returns
branch_search(b, comps, orgs, pages, query) ==
    CASE b = "components" -> search_components(comps, query)
      [] b = "organisms" -> search_components(orgs, query)
      [] b = "patterns" -> search_patterns(pages, query)

\* ------------------------------------------------------------ figma_request
ErrorStatus == 400   \* if response.status_code >= 400

\* the statuses the API answers with, and whether the body of the answer is
\* JSON
StatusPool == {200, 201, 204, 301, 302, 304, 400, 403, 404, 429, 500}
MethodPool == {"GET", "POST", "PUT", "DELETE"}

\* what figma_request returns for a response: the dict {"error": "HTTP
\* <status>: <text>"}, or response.json(), which raises when the body is not JSON
figma_response(status, is_json) ==
    IF status >= ErrorStatus THEN [kind |-> "error", status |-> status]
    ELSE IF is_json THEN [kind |-> "json", status |-> status]
    ELSE [kind |-> "raised", status |-> status]

NoRequest ==
    [pc |-> "idle", method |-> "", calls |-> 0, sent |-> 0,
     result |-> [kind |-> "none", status |-> 0]]

\* ------------------------------------------------------ files to open
\* documents: a guide frame after a frame that only looks like one; a guide
\* that names another component; a guide frame without text
DocPool ==
    {<<>>,
     <<DocNode(S_Guidelines, 32, <<S_Sizes>>),
       DocNode(S_ButtonGuide, 30, <<S_UseIt, S_Blank, S_Sizes>>)>>,
     <<DocNode(S_IconGuide, 31, <<S_Sizes>>)>>,
     <<DocNode(S_ButtonGuide2, 33, <<S_Blank>>)>>}

\* pages: the containing frame itself as the cover (id 10); a text node of
\* that name before a cover of its own (id 20); a cover on another page
PagePool ==
    {<<>>,
     <<PageNode(S_Button, 10, "FRAME", 100)>>,
     <<PageNode(S_Button, 21, "TEXT", 100), PageNode(S_But_ton, 20, "SECTION", 100)>>,
     <<PageNode(S_Button, 20, "FRAME", 101)>>}

\* renders: node id -> URL (0: null).  Every node renders to a URL of its
\* own; the cover 20 does not render; all nodes render to one URL; only the
\* frames render
ImageIds == {1, 2, 3, 10, 13, 20}
ImagePool ==
    {<<>>,
     [i \in ImageIds |-> i],
     [i \in ImageIds |-> IF i = 20 THEN 0 ELSE i],
     [i \in ImageIds |-> 7],
     [i \in ImageIds |-> IF i \in {10, 20} THEN i ELSE 0]}

\* node data: the component set 10 with its properties, the component 2, and
\* instances of 2, of an unknown component 9, and without a component
NodePool ==
    {<<>>,
     [i \in {2, 10, 50, 51, 52} |->
        CASE i = 2 -> NodeData("COMPONENT", S_Button, 0, <<>>)
          [] i = 10 -> NodeData("COMPONENT_SET", S_Button, 0,
                                <<"VARIANT", "BOOLEAN", "TEXT", "INSTANCE_SWAP">>)
          [] i = 50 -> NodeData("INSTANCE", S_Primary, 2, <<>>)
          [] i = 51 -> NodeData("INSTANCE", S_Large, 9, <<>>)
          [] i = 52 -> NodeData("INSTANCE", S_Tab, 0, <<>>)]}

NoFile == [doc |-> <<>>, page |-> <<>>, images |-> <<>>, nodes |-> <<>>]

FilePool ==
    {[doc |-> d, page |-> p, images |-> im, nodes |-> n] :
        d \in DocPool, p \in PagePool, im \in ImagePool, n \in NodePool} \ {NoFile}

\* listings of the files opened in one go: one component, or a frame with
\* two members, or two frames
\* the pages of the patterns file, and what its frames render to
PatternListPool ==
    {<<Page(S_Onboarding, 201, <<Child(S_Do, 300, "TEXT", 0 - 100, <<S_Do>>)>>)>>,
     <<Page(S_OnboardingFlow, 201, <<>>),
       Page(S_Onboarding, 202, <<Child(Lower(S_Onboarding), 300, "FRAME", 250, <<S_Intro>>)>>)>>,
     <<Page(S_Payments, 201, <<>>), Page(S_OnboardingFlow, 202, <<>>)>>}

PatternImagePool == {<<>>, [i \in 301..(300 + MaxFrames) |-> i]}

PatternQueryPool == {S_Onboarding, S_Onb, S_Pay}

\* the frames a pattern page gets: name and type, x, characters
FrameKindPool == {<<S_Overview, "FRAME">>, <<S_Rules, "SECTION">>, <<S_Guide, "FRAME">>}
FrameXPool == {0, 500}
FrameCharsPool == {<<>>, <<S_UseIt, S_Blank, S_Do>>}

ListingPool ==
    {<<c>> : c \in ComponentPool}
    \cup {<<Comp(S_Primary, 1, S_Button, 10, 100), Comp(S_Button, 2, S_Button, 10, 100)>>,
          <<Comp(S_Large, 4, S_ButtonGroup, 11, 100), Comp(S_Button, 2, S_Button, 10, 100)>>}

\* the three files of a universal search: UI kit, organisms, patterns; some
\* with more hits than the search keeps
UniversalKitPool ==
    {<<>>,
     <<Comp(S_Large, 4, S_ButtonGroup, 11, 100)>>,
     <<Comp(S_Primary, 1, S_Button, 10, 100), Comp(S_Button, 3, <<>>, 0, 0)>>
         \o [k \in 1..9 |-> Comp(S_IconButton, 100 + k, S_Tabs, 13, 101)]}

UniversalOrgPool ==
    {<<>>,
     <<Comp(S_Button, 2, S_Button, 10, 100)>>,
     [k \in 1..6 |-> Comp(S_ButtonGroup, 200 + k, S_NavTabs, 12, 101)]}

UniversalPatternPool ==
    {<<>>,
     <<Page(S_Payments, 201, <<>>), Page(S_OnboardingFlow, 202, <<>>)>>,
     [k \in 1..6 |-> Page(S_OnboardingFlow \o <<32, 48 + k>>, 210 + k, <<>>)]
         \o <<Page(S_Onboarding, 220, <<>>)>>}

UniversalQueryPool == {S_on, S_Button, S_Onboarding}

\* -------------------------------------------------------------- state
VARIABLES
    components,  \* what list_components(file_key) answers: the file's listing
    op,          \* the operation whose result is held: none, search, variants,
                 \* variants2 (variants resolved again by frame name), details
    arg,         \* its query / component name
    results,     \* what search_components returned (listing positions)
    variants,    \* what get_component_variants returned
    resolved,    \* variants2: the group resolved before, whose frame name is arg
    details,     \* what get_component_details returned
    tree,        \* a node tree (of GET /files/{key}/nodes): the nodes, parents first
    extracted,   \* whether _extract_tokens_recursive has run on the tree's root
    walk,        \* its lists tokens and raw_props, and the nodes it was called on
    url,         \* a Figma URL at hand
    link,        \* the file key and node id the URL was generated from, if it was
    parsed,      \* what parse_figma_url(url) returned
    file,        \* the content of the file beside its listing: the document,
                 \* the pages, the renders and the node data
    patterns,    \* the pages of the patterns file, each with its children
    pattern,     \* what get_pattern_info returned
    analysis,    \* what analyze_figma_url returned
    organisms,   \* the listing of the organisms file
    texts,       \* what _extract_text_from_node appended to texts, on the tree
    request,     \* figma_request: where the call is, the calls made and the HTTP
                 \* requests sent so far, what the last call returned
    universal    \* search_design_system: where it is, its three tasks, the
                 \* order in which they returned (finished), and its results

svars == <<components, op, arg, results, variants, resolved, details>>
tvars == <<tree, extracted, walk>>
uvars == <<url, link, parsed>>
pvars == <<patterns, pattern>>
avars == <<analysis, organisms, universal>>
nvars == <<texts, request>>
xvars == <<uvars, file, pvars, avars, nvars>>
vars == <<components, op, arg, results, variants, resolved, details, tree, extracted, walk,
          uvars, file, pvars, avars, nvars>>

NoLink == [made |-> FALSE, file_key |-> <<>>, node_id |-> <<>>]

NoVariants == [list |-> <<>>, strategy |-> 0]

Init ==
    /\ components = <<>>
    /\ op = "none"
    /\ arg = <<>>
    /\ results = <<>>
    /\ variants = NoVariants
    /\ resolved = <<>>
    /\ details = NoDetails
    /\ tree = <<>>
    /\ extracted = FALSE
    /\ walk = NoTokens
    /\ url = <<>>
    /\ link = NoLink
    /\ parsed = NoParse
    /\ file = NoFile
    /\ patterns = <<>>
    /\ pattern = NoPattern
    /\ analysis = NoAnalysis
    /\ organisms = <<>>
    /\ universal = NoUniversal
    /\ texts = <<>>
    /\ request = NoRequest

\* the file lists one more component
ListComponent(c) ==
    /\ op = "none"
    /\ Len(components) < MaxComps
    /\ components' = Append(components, c)
    /\ UNCHANGED <<op, arg, results, variants, resolved, details, tvars, xvars>>

\* the file lists a whole family: FamilySize components with the name and
\* frame of c, each with a node id of its own
ListFamily(c) ==
    /\ op = "none"
    /\ Len(components) < MaxComps
    /\ components' = components \o
           [k \in 1..FamilySize |-> [c EXCEPT !.node_id = 100 + k]]
    /\ UNCHANGED <<op, arg, results, variants, resolved, details, tvars, xvars>>

\* search_components(query, file_key)
Search(q) ==
    /\ op = "none"
    /\ op' = "search"
    /\ arg' = q
    /\ results' = search_components(components, q)
    /\ UNCHANGED <<components, variants, resolved, details, tvars, xvars>>

\* get_component_variants(file_key, component_name)
Variants(n) ==
    /\ op = "none"
    /\ op' = "variants"
    /\ arg' = n
    /\ variants' = get_component_variants(components, n)
    /\ UNCHANGED <<components, results, resolved, details, tvars, xvars>>

\* get_component_variants again, with the exact containing-frame name of a
\* member of the group just resolved
VariantsAgain(k) ==
    /\ op = "variants"
    /\ k \in DOMAIN variants.list
    /\ components[variants.list[k]].frame # <<>>
    /\ op' = "variants2"
    /\ arg' = components[variants.list[k]].frame
    /\ resolved' = variants.list
    /\ variants' = get_component_variants(components, components[variants.list[k]].frame)
    /\ UNCHANGED <<components, results, details, tvars, xvars>>

\* get_component_details(file_key, query)
Details(q) ==
    /\ op = "none"
    /\ op' = "details"
    /\ arg' = q
    /\ details' = get_component_details(components, file, q)
    /\ UNCHANGED <<components, results, variants, resolved, tvars, xvars>>

\* the query ends and its results are discarded
Discard ==
    /\ op # "none"
    /\ op' = "none"
    /\ arg' = <<>>
    /\ results' = <<>>
    /\ variants' = NoVariants
    /\ resolved' = <<>>
    /\ details' = NoDetails
    /\ pattern' = NoPattern
    /\ UNCHANGED <<nvars, avars, components, tvars, uvars, file, patterns>>

\* the tree gets one more node: the root first, then a child of any node
AddNode(kind, nm, p) ==
    /\ ~extracted
    /\ Len(tree) < MaxNodes
    /\ IF tree = <<>> THEN p = 0 ELSE p \in 1..Len(tree)
    /\ tree' = Append(tree, Node(kind, nm, p))
    /\ UNCHANGED <<svars, xvars, extracted, walk>>

\* the tree gets a chain of ChainLen nodes below its newest node, each the
\* only child of the one before
AddChain(kind) ==
    /\ ~extracted
    /\ tree # <<>>
    /\ Len(tree) <= MaxNodes
    /\ tree' = tree \o [k \in 1..ChainLen |-> Node(kind, S_A, Len(tree) + k - 1)]
    /\ UNCHANGED <<svars, xvars, extracted, walk>>

\* _extract_tokens_recursive(root, var_map, style_map, tokens, raw_props, [])
\* with tokens = raw_props = []
ExtractTokens ==
    /\ ~extracted
    /\ tree # <<>>
    /\ extracted' = TRUE
    /\ walk' = extract_tokens_recursive(tree, 1, <<>>, NoTokens)
    /\ UNCHANGED <<svars, xvars, tree>>

\* the tree gets, below its newest node, a chain of len frames, each the only
\* child of the one before, and a text node at its end
AddDeepText(len) ==
    /\ ~extracted
    /\ tree # <<>>
    /\ Len(tree) <= MaxNodes
    /\ tree' = tree \o [k \in 1..len |-> Node(Plain, S_A, Len(tree) + k - 1)]
                     \o <<Node(KindText, S_B, Len(tree) + len)>>
    /\ UNCHANGED <<svars, xvars, extracted, walk>>

\* texts = []; _extract_text_from_node(root, texts)
ExtractText ==
    /\ ~extracted
    /\ tree # <<>>
    /\ extracted' = TRUE
    /\ texts' = extract_text_recursive(tree, 1, <<>>, 0)
    /\ UNCHANGED <<svars, uvars, file, pvars, avars, tree, walk, request>>

\* figma_request(method, endpoint) up to the await: client.request sends one
\* HTTP request
CallFigmaRequest(method) ==
    /\ request.pc # "sent"
    /\ request.calls < MaxCalls
    /\ request' = [pc |-> "sent", method |-> method, calls |-> request.calls + 1,
                   sent |-> request.sent + 1, result |-> NoRequest.result]
    /\ UNCHANGED <<svars, tvars, uvars, file, pvars, avars, texts>>

\* the response arrives and figma_request returns
FigmaResponds(status, is_json) ==
    /\ request.pc = "sent"
    /\ request' = [request EXCEPT !.pc = "done", !.result = figma_response(status, is_json)]
    /\ UNCHANGED <<svars, tvars, uvars, file, pvars, avars, texts>>

\* a file is opened: its listing and its content
OpenFile(l, f) ==
    /\ op = "none"
    /\ components = <<>>
    /\ file = NoFile
    /\ patterns = <<>>
    /\ components' = l
    /\ file' = f
    /\ UNCHANGED <<nvars, avars, op, arg, results, variants, resolved, details, tvars, uvars, pvars>>

\* the patterns file is opened: its pages, still without children
OpenPatterns(pl, im) ==
    /\ op = "none"
    /\ components = <<>>
    /\ file = NoFile
    /\ patterns = <<>>
    /\ patterns' = pl
    /\ file' = [NoFile EXCEPT !.images = im]
    /\ UNCHANGED <<nvars, avars, svars, tvars, uvars, pattern>>

\* the last page of the patterns file gets one more child
AddFrame(kind, x, chars) ==
    /\ op = "none"
    /\ patterns # <<>>
    /\ Len(all_frames(patterns[Len(patterns)].children)) < MaxFrames
    /\ patterns' = [patterns EXCEPT ![Len(patterns)].children =
           Append(@, Child(kind[1], 301 + Len(all_frames(@)), kind[2], x, chars))]
    /\ UNCHANGED <<nvars, avars, svars, tvars, uvars, file, pattern>>

\* the last page gets a row of RowSize frames with text, laid out from right
\* to left
AddFrameRow ==
    /\ op = "none"
    /\ patterns # <<>>
    /\ Len(all_frames(patterns[Len(patterns)].children)) <= MaxFrames
    /\ patterns' = [patterns EXCEPT ![Len(patterns)].children =
           @ \o [k \in 1..RowSize |->
                    Child(<<83, 48 + (k % 10)>>, 400 + k, "FRAME", 400 - 10 * k, <<S_Intro>>)]]
    /\ UNCHANGED <<nvars, avars, svars, tvars, uvars, file, pattern>>

\* get_pattern_info(pattern_name)
PatternInfo(q) ==
    /\ op = "none"
    /\ op' = "pattern"
    /\ arg' = q
    /\ pattern' = get_pattern_info(patterns, file.images, q)
    /\ UNCHANGED <<nvars, avars, components, results, variants, resolved, details, tvars, uvars, file,
                   patterns>>

\* analyze_figma_url(url)
AnalyzeUrl(u) ==
    /\ op = "none"
    /\ op' = "analyze"
    /\ arg' = u
    /\ analysis' = analyze_figma_url(components, file, u)
    /\ UNCHANGED <<nvars, components, results, variants, resolved, details, tvars, uvars, file,
                   pvars, organisms, universal>>

\* the three files a universal search reads
OpenDesignSystem(kit, org, pl) ==
    /\ op = "none"
    /\ components = <<>> /\ organisms = <<>> /\ patterns = <<>>
    /\ file = NoFile
    /\ <<kit, org, pl>> # <<<<>>, <<>>, <<>>>>
    /\ components' = kit
    /\ organisms' = org
    /\ patterns' = pl
    /\ UNCHANGED <<nvars, op, arg, results, variants, resolved, details, tvars, uvars, file, pattern,
                   analysis, universal>>

\* search_design_system(query) up to the await: the three coroutines are
\* handed to asyncio.gather
SearchDesignSystem(q) ==
    /\ op = "none"
    /\ universal.pc = "idle"
    /\ op' = "universal"
    /\ arg' = q
    /\ universal' = [universal EXCEPT !.pc = "gather"]
    /\ UNCHANGED <<nvars, components, results, variants, resolved, details, tvars, uvars, file,
                   pvars, analysis, organisms>>

\* the task of branch Branches[k] runs up to its request to the API; the
\* tasks are started in the order of the arguments of gather
BranchRequest(k) ==
    /\ universal.pc = "gather"
    /\ universal.tasks[Branches[k]].pc = "new"
    /\ \A j \in 1..(k - 1) : universal.tasks[Branches[j]].pc # "new"
    /\ universal' = [universal EXCEPT !.tasks[Branches[k]].pc = "sent"]
    /\ UNCHANGED <<nvars, svars, tvars, uvars, file, pvars, analysis, organisms>>

\* the API answers the request of branch b with a status: the listing raises
\* on an error status and the exception ends the task, otherwise its search
\* returns
BranchReturn(b, status) ==
    /\ universal.pc = "gather"
    /\ universal.tasks[b].pc = "sent"
    /\ universal' = [universal EXCEPT
           !.tasks[b] = IF raise_for_status(status)
                        THEN [pc |-> "failed", result |-> <<>>, status |-> status]
                        ELSE [pc |-> "done",
                              result |-> branch_search(b, components, organisms, patterns, arg),
                              status |-> status],
           !.finished = Append(@, b)]
    /\ UNCHANGED <<nvars, svars, tvars, uvars, file, pvars, analysis, organisms>>

\* the gather raises the exception of a task, and search_design_system ends
\* with it
GatherRaises ==
    /\ universal.pc = "gather"
    /\ gather_exception(universal.tasks, universal.finished) # ""
    /\ universal' = [universal EXCEPT
           !.pc = "failed",
           !.error = gather_exception(universal.tasks, universal.finished)]
    /\ UNCHANGED <<nvars, svars, tvars, uvars, file, pvars, analysis, organisms>>

\* the gather returns and the results are put together
CombineResults ==
    /\ universal.pc = "gather"
    /\ gather(universal.tasks)
    /\ universal' = [universal EXCEPT
           !.pc = "done",
           !.results = design_system_results(components, organisms, patterns, universal.tasks)]
    /\ UNCHANGED <<nvars, svars, tvars, uvars, file, pvars, analysis, organisms>>

\* generate_figma_link(file_key, node_id)
GenerateLink(k, n) ==
    /\ url = <<>>
    /\ url' = generate_figma_link(k, n)
    /\ link' = [made |-> TRUE, file_key |-> k, node_id |-> n]
    /\ UNCHANGED <<nvars, avars, svars, tvars, parsed, file, pvars>>

\* a user pastes a URL
PasteUrl(u) ==
    /\ url = <<>>
    /\ url' = u
    /\ UNCHANGED <<nvars, avars, svars, tvars, link, parsed, file, pvars>>

\* parse_figma_url(url)
ParseUrl ==
    /\ url # <<>>
    /\ ~parsed.done
    /\ parsed' = parse_figma_url(url)
    /\ UNCHANGED <<nvars, avars, svars, tvars, url, link, file, pvars>>

Next ==
    \/ \E c \in ComponentPool : ListComponent(c)
    \/ \E c \in ComponentPool : ListFamily(c)
    \/ \E q \in QueryPool : Search(q)
    \/ \E n \in QueryPool : Variants(n)
    \/ \E k \in 1..(MaxComps + FamilySize) : VariantsAgain(k)
    \/ \E q \in QueryPool : Details(q)
    \/ Discard

Spec == Init /\ [][Next]_vars

NextTokens ==
    \/ \E kind \in NodeKinds, nm \in NodeNames, p \in 0..MaxNodes : AddNode(kind, nm, p)
    \/ \E kind \in ChainKinds : AddChain(kind)
    \/ ExtractTokens

SpecTokens == Init /\ [][NextTokens]_vars

NextText ==
    \/ \E kind \in TextKinds, p \in 0..MaxNodes : AddNode(kind, S_A, p)
    \/ \E len \in {TextDepthLimit - 2, TextDepthLimit} : AddDeepText(len)
    \/ ExtractText

SpecText == Init /\ [][NextText]_vars

NextRequest ==
    \/ \E method \in MethodPool : CallFigmaRequest(method)
    \/ \E status \in StatusPool, is_json \in BOOLEAN : FigmaResponds(status, is_json)

SpecRequest == Init /\ [][NextRequest]_vars

NextDetails ==
    \/ \E l \in ListingPool, f \in FilePool : OpenFile(l, f)
    \/ \E q \in QueryPool : Details(q)
    \/ \E pl \in PatternListPool, im \in PatternImagePool : OpenPatterns(pl, im)
    \/ \E q \in PatternQueryPool : PatternInfo(q)

SpecDetails == Init /\ [][NextDetails]_vars

NextPattern ==
    \/ \E pl \in PatternListPool, im \in PatternImagePool : OpenPatterns(pl, im)
    \/ \E kind \in FrameKindPool, x \in FrameXPool, chars \in FrameCharsPool :
           AddFrame(kind, x, chars)
    \/ AddFrameRow
    \/ \E q \in PatternQueryPool : PatternInfo(q)

SpecPattern == Init /\ [][NextPattern]_vars

NextAnalyze ==
    \/ \E l \in ListingPool, f \in FilePool : OpenFile(l, f)
    \/ \E u \in AnalyzeUrlPool : AnalyzeUrl(u)

SpecAnalyze == Init /\ [][NextAnalyze]_vars

NextUniversal ==
    \/ \E kit \in UniversalKitPool, org \in UniversalOrgPool, pl \in UniversalPatternPool :
           OpenDesignSystem(kit, org, pl)
    \/ \E q \in UniversalQueryPool : SearchDesignSystem(q)
    \/ \E k \in DOMAIN Branches : BranchRequest(k)
    \/ \E b \in Range(Branches), status \in BranchStatusPool : BranchReturn(b, status)
    \/ GatherRaises
    \/ CombineResults

SpecUniversal == Init /\ [][NextUniversal]_vars

NextUrl ==
    \/ \E k \in KeyPool, n \in NodeIdPool : GenerateLink(k, n)
    \/ \E pre \in UrlPrefixPool, k \in KeyPool, t \in UrlTailPool : PasteUrl(pre \o k \o t)
    \/ ParseUrl

SpecUrl == Init /\ [][NextUrl]_vars

\* ------------------------------------------------------------- claims
\* the six tests of search_components, on one component
TierTest(k, c, query) ==
    LET ql == Strip(Lower(query))
        qc == clean(query)
    IN  CASE k = 1 -> Strip(Lower(c.frame)) = ql
          [] k = 2 -> Strip(Lower(c.name)) = ql
          [] k = 3 -> StartsWith(Lower(c.frame), ql)
          [] k = 4 -> StartsWith(Lower(c.name), ql)
          [] k = 5 -> /\ Len(qc) > FuzzyMinLen
                      /\ Contains(clean(c.frame), qc) \/ Contains(clean(c.name), qc)
          [] k = 6 -> Contains(Lower(c.name), ql) \/ Contains(Lower(c.frame), ql)

\* the first tier whose test the component satisfies (0: none)
FirstTier(c, query) ==
    IF \E k \in 1..6 : TierTest(k, c, query)
    THEN CHOOSE k \in 1..6 :
             TierTest(k, c, query) /\ \A j \in 1..(k - 1) : ~TierTest(j, c, query)
    ELSE 0

Positions(comps) == [i \in 1..Len(comps) |-> i]

\* the first tier of every listed component
RECURSIVE FirstTiers(_, _)
FirstTiers(comps, query) ==
    IF comps = <<>> THEN <<>>
    ELSE Append(FirstTiers(SubSeq(comps, 1, Len(comps) - 1), query),
                FirstTier(comps[Len(comps)], query))

\* the positions whose entry in ft is k and that pass keep, tier after tier
InTierOrder(ft, keep) ==
    LET tier(k) == SelectSeq([i \in DOMAIN ft |-> i], LAMBDA i : ft[i] = k /\ i \in keep)
    IN  tier(1) \o tier(2) \o tier(3) \o tier(4) \o tier(5) \o tier(6)

\* the order C1 states: tier k holds the components with first tier k, in
\* listing order
ClaimedOrder(comps, query) ==
    InTierOrder(FirstTiers(comps, query), {i \in DOMAIN comps : TRUE})

\* a component of first tier 5 or 6 is left out when its node_id is the
\* node_id of a component placed before it
IdTaken(comps, ft, i) ==
    \E j \in DOMAIN ft :
        /\ j # i
        /\ comps[j].node_id = comps[i].node_id
        /\ ft[j] # 0
        /\ \/ ft[j] < ft[i]
           \/ ft[j] = 5 /\ ft[i] = 5 /\ j < i

AmendedOrder(comps, query) ==
    LET ft == FirstTiers(comps, query)
    IN  InTierOrder(ft, {i \in DOMAIN ft : ft[i] >= 5 => ~IdTaken(comps, ft, i)})

\* C1 as stated: search_components returns the first 20 elements of
\* tier1 ++ ... ++ tier6, each tier holding, in listing order, the components
\* that satisfy its test and no earlier tier's test.
C1_TiersByTestOnly ==
    op = "search" => results = Take(ClaimedOrder(components, arg), ResultLimit)

\* C1 amended: search_components returns the first 20 elements of
\* tier1 ++ ... ++ tier6, where tiers 1-4 hold, in listing order, the components
\* that satisfy the tier's test and no earlier test, and tiers 5 and 6 hold those
\* that moreover do not share their node_id with a component placed before them
\* (in an earlier tier, or earlier in tier 5); no component of a later tier
\* precedes a component of an earlier tier.
C1_TiersInOrder ==
    op = "search" =>
        /\ results = Take(AmendedOrder(components, arg), ResultLimit)
        /\ LET ft == FirstTiers(components, arg)
           IN  \A a, b \in DOMAIN results : a < b => ft[results[a]] <= ft[results[b]]

\* C1 witness: more than 20 components match, components of two tiers are
\* returned and the result is cut to 20
C1_Witness ==
    /\ op = "search"
    /\ Len(AmendedOrder(components, arg)) > ResultLimit
    /\ Len(results) = ResultLimit
    /\ \E a, b \in DOMAIN results :
           FirstTier(components[results[a]], arg) < FirstTier(components[results[b]], arg)

\* C2 as stated: no component occurs twice in the returned list, also when
\* the listing holds equal records.
C2_NoRecordTwice ==
    op = "search" =>
        \A a, b \in DOMAIN results :
            a # b => components[results[a]] # components[results[b]]

\* C2 amended: the tiers are mutually exclusive: every listed component is in
\* at most one tier and at most once in it, so it is at most once in the
\* returned list; a record (or node_id) that the listing holds twice can be
\* returned twice.
C2_TiersExclusive ==
    op = "search" =>
        LET t == search_tiers(components, arg)
        IN  /\ \A k, l \in 1..6 : k # l => Range(t[k]) \cap Range(t[l]) = {}
            /\ \A k \in 1..6 : \A a, b \in DOMAIN t[k] : a # b => t[k][a] # t[k][b]
            /\ \A a, b \in DOMAIN results : a # b => results[a] # results[b]
            /\ \A i \in Range(results) : \E k \in 1..6 : i \in Range(t[k])

\* C2 witness: a component that satisfies the tests of two tiers is returned,
\* next to a second component that shares a node_id or is an equal record
C2_Witness ==
    /\ op = "search"
    /\ Len(results) >= 2
    /\ \E i \in Range(results) :
           TierTest(1, components[i], arg) /\ TierTest(2, components[i], arg)
    /\ \E i, j \in Range(results) :
           i # j /\ components[i].node_id = components[j].node_id

\* C3: with a cleaned query of length 3 or less every returned component
\* satisfies the test of tier 1, 2, 3, 4 or 6; none is returned for the
\* cleaned containment alone.
C3_NoFuzzyOnShortQuery ==
    (op = "search" /\ Len(clean(arg)) <= FuzzyMinLen) =>
        \A i \in Range(results) :
            \E k \in {1, 2, 3, 4, 6} : TierTest(k, components[i], arg)

\* C3 witness: a short query, and a listed component whose cleaned name or
\* frame contains the cleaned query but that passes no other test: it is not
\* returned
C3_Witness ==
    /\ op = "search"
    /\ Len(clean(arg)) = FuzzyMinLen
    /\ \E i \in 1..Len(components) :
           /\ \/ Contains(clean(components[i].frame), clean(arg))
              \/ Contains(clean(components[i].name), clean(arg))
           /\ \A k \in {1, 2, 3, 4, 6} : ~TierTest(k, components[i], arg)
           /\ i \notin Range(results)

\* the file of C4: every listed component sits in the containing frame
\* "Button", and no component name contains the cleaned query
ButtonFile(query) ==
    /\ components # <<>>
    /\ \A i \in 1..Len(components) :
           /\ components[i].frame = S_Button
           /\ ~Contains(clean(components[i].name), clean(query))

\* C4 as stated: details for "Buton" against a file whose only matching frame
\* is "Button" return found_name "Button" and no not-found error.
C4_TypoResolves ==
    (op = "details" /\ arg = S_Buton /\ ButtonFile(arg)) =>
        (~details.error /\ details.found_name = S_Button)

\* C4 amended: the fuzzy tier is a containment test on the cleaned names
\* (case, spaces, hyphens and underscores ignored), not a typo-tolerant one:
\* against a file whose components all sit in the frame "Button" and whose
\* component names do not contain the cleaned query, "But ton" resolves through
\* the fuzzy tier to found_name "Button", and "Buton" ("buton" is no substring
\* of "button") gets the not-found error.
C4_FuzzyIsContainment ==
    (op = "details" /\ ButtonFile(arg)) =>
        /\ arg = S_But_ton =>
               /\ ~details.error
               /\ details.found_name = S_Button
               /\ LET t == search_tiers(components, arg)
                  IN  t[1] \o t[2] \o t[3] \o t[4] = <<>> /\ t[5] # <<>>
        /\ arg = S_Buton => details.error

\* C4 witness: "Buton" asked of a file whose components sit in frame "Button"
C4_Witness ==
    /\ op = "details"
    /\ arg = S_Buton
    /\ ButtonFile(arg)
    /\ details.error

\* C5: resolving the variants again by the exact containing-frame name of a
\* member of a resolved group returns the same member set.
C5_VariantsIdempotent ==
    op = "variants2" => Range(variants.list) = Range(resolved)

\* the candidates of the four strategies of get_component_variants
Candidates(comps, name, k) ==
    LET n == Strip(Lower(name))
    IN  CASE k = 1 -> {i \in 1..Len(comps) : Strip(Lower(comps[i].frame)) = n}
          [] k = 2 -> {i \in 1..Len(comps) : StartsWith(Lower(comps[i].frame), n)}
          [] k = 3 -> {i \in 1..Len(comps) : Strip(Lower(comps[i].name)) = n}
          [] k = 4 -> {i \in 1..Len(comps) : Contains(Lower(comps[i].name), n)}

MinOf(S) == CHOOSE x \in S : \A y \in S : x <= y

\* C6: the first strategy with a candidate decides the result: strategy 1
\* returns all components of the frame (case and surrounding whitespace
\* ignored), a later strategy contributes only when all earlier ones found
\* nothing, and the result is empty only when all four found nothing.
C6_FirstNonEmptyWins ==
    op = "variants" =>
        LET cand(k) == Candidates(components, arg, k)
            L == Range(variants.list)
            first == IF \E k \in 1..4 : cand(k) # {}
                     THEN MinOf({k \in 1..4 : cand(k) # {}}) ELSE 0
        IN  /\ variants.strategy = first
            /\ first = 1 => L = cand(1)
            /\ first = 2 => L # {} /\ L \subseteq cand(2)
            /\ first = 3 => MinOf(cand(3)) \in L
            /\ first = 4 => MinOf(cand(4)) \in L
            /\ (L = {}) <=> (first = 0)

\* C6 witness: strategies 1 and 2 find nothing and strategy 3 decides, while
\* strategy 4 has candidates too
C6_Witness ==
    /\ op = "variants"
    /\ variants.strategy = 3
    /\ Candidates(components, arg, 4) # {}
    /\ Len(variants.list) >= 2

\* C7: the returned list is a subsequence of the listing: listing order is
\* kept and no component is in it more often than in the listing.
C7_VariantsInListingOrder ==
    op \in {"variants", "variants2"} =>
        /\ Range(variants.list) \subseteq 1..Len(components)
        /\ \A a, b \in DOMAIN variants.list : a < b => variants.list[a] < variants.list[b]

\* C7 witness: the starts-with strategy returns a group of several members
\* out of a listing that holds other components between them
C7_Witness ==
    /\ op = "variants"
    /\ variants.strategy = 2
    /\ Len(variants.list) >= 2
    /\ Len(variants.list) < Len(components)

\* the depth of node n of tree t: 0 for the root
RECURSIVE Depth(_, _)
Depth(t, n) == IF t[n].parent = 0 THEN 0 ELSE 1 + Depth(t, t[n].parent)

\* C8: started at the root with an empty path, _extract_tokens_recursive is
\* never called on a node deeper than 5 and emits no raw-fallback entry for a
\* node at depth 3 or more.
C8_DepthBounds ==
    extracted =>
        /\ \A k \in DOMAIN walk.visited : Depth(tree, walk.visited[k]) <= RecurseDepthLimit
        /\ \A k \in DOMAIN walk.raw_props :
               Depth(tree, walk.raw_props[k].node) < RawDepthLimit

\* C8 witness: a chain of visible nodes ten levels deep, all with raw values:
\* depth 5 is visited, depth 2 has raw entries
C8_Witness ==
    /\ extracted
    /\ \A n \in DOMAIN tree : tree[n].visible /\ tree[n].fills # <<>>
    /\ \E n \in DOMAIN tree : Depth(tree, n) = 9
    /\ \E k \in DOMAIN walk.visited : Depth(tree, walk.visited[k]) = RecurseDepthLimit
    /\ \E k \in DOMAIN walk.raw_props :
           Depth(tree, walk.raw_props[k].node) = RawDepthLimit - 1

\* C9: a raw-fallback entry is emitted for a node only if the node has
\* neither a bound-variable reference nor a style reference.
C9_RawOnlyWithoutBinding ==
    extracted =>
        \A k \in DOMAIN walk.raw_props :
            LET node == tree[walk.raw_props[k].node]
            IN  node.boundVariables = <<>> /\ node.styles = <<>>

\* C10: the output of the token resolution holds no string twice and is in
\* ascending order: each of the lists tokens and raw_props is strictly ascending.
C10_SortedNoDuplicates ==
    extracted =>
        /\ \A a, b \in DOMAIN walk.tokens :
               a < b => StrLess(walk.tokens[a].text, walk.tokens[b].text)
        /\ \A a, b \in DOMAIN walk.raw_props :
               a < b => StrLess(walk.raw_props[a].text, walk.raw_props[b].text)

\* ------------------------------------------------------------ C11, C12
\* a non-empty string of decimal digits
IsDigits(s) == s # <<>> /\ \A i \in DOMAIN s : s[i] \in 48..57

\* digits, the separator sep, digits
IsDigitsSepDigits(s, sep) ==
    \E k \in DOMAIN s :
        /\ s[k] = sep
        /\ IsDigits(SubSeq(s, 1, k - 1))
        /\ IsDigits(SubSeq(s, k + 1, Len(s)))

\* 22 or more alphanumeric characters
IsFileKey(k) == Len(k) >= 22 /\ \A i \in DOMAIN k : k[i] \in Alnum

\* the URL at hand is a link generated for such a key and a digits:digits id,
\* and has been parsed
RoundTripCase ==
    /\ parsed.done
    /\ link.made
    /\ IsFileKey(link.file_key)
    /\ IsDigitsSepDigits(link.node_id, 58)

\* C11: parsing the link generated for a file key of 22 or more alphanumeric
\* characters and a node id digits:digits gives back that key and that id
C11_LinkRoundTrips ==
    RoundTripCase =>
        /\ ~parsed.error
        /\ parsed.file_key = link.file_key
        /\ parsed.has_node
        /\ parsed.node_id = link.node_id

C11_Witness == RoundTripCase /\ link.node_id = S_id_12_34 /\ link.file_key = S_Key23

\* C12 as stated: only a decoded id of the form digits-digits is rewritten
\* (to digits:digits); every other id is returned as decoded
C12_OnlyDigitPairsRewritten ==
    (parsed.done /\ parsed.has_node) =>
        parsed.node_id = IF IsDigitsSepDigits(parsed.raw_id, 45)
                         THEN replace_char(parsed.raw_id, 45, 58)
                         ELSE parsed.raw_id

\* C12 amended: a decoded id without a colon has every dash turned into a
\* colon, whatever its other characters; an id with a colon, and every
\* character that is no dash, is returned as decoded
C12_DashesRewrittenWithoutColon ==
    (parsed.done /\ parsed.has_node) =>
        /\ Len(parsed.node_id) = Len(parsed.raw_id)
        /\ \A i \in DOMAIN parsed.raw_id :
               parsed.node_id[i] =
                   IF parsed.raw_id[i] = 45 /\ \A j \in DOMAIN parsed.raw_id : parsed.raw_id[j] # 58
                   THEN 58 ELSE parsed.raw_id[i]

\* the decoded id "I5-6;7-8", which is not two digit groups, has been
\* rewritten
C12_Witness ==
    /\ parsed.done
    /\ parsed.has_node
    /\ ~IsDigitsSepDigits(parsed.raw_id, 45)
    /\ parsed.node_id # parsed.raw_id
    /\ 59 \in Range(parsed.raw_id)

\* ------------------------------------------------------- C13, C14, C17
\* C13: when the search finds nothing, get_component_details and
\* get_pattern_info return an {error} value and make no request after the one
\* of the search
C13_NotFoundIsAnErrorValue ==
    /\ (op = "details" /\ search_components(components, arg) = <<>>) =>
           /\ details.error
           /\ details.calls = <<Req("components", 0)>>
    /\ (op = "pattern" /\ search_patterns(patterns, arg) = <<>>) =>
           /\ pattern.error
           /\ pattern.calls = <<Req("file", 0)>>

\* nothing is found in a file that has components, a guide, a cover and renders
C13_Witness ==
    /\ op = "details"
    /\ details.error
    /\ components # <<>>
    /\ file.doc # <<>> /\ file.page # <<>> /\ file.images # <<>> /\ file.nodes # <<>>

\* some node of the document has "guide" and the name nm in its name (case
\* and spaces ignored)
GuideNamed(nm) ==
    \E i \in DOMAIN file.doc :
        /\ Contains(Lower(file.doc[i].name), S_guide)
        /\ Contains(lower_nospace(file.doc[i].name), lower_nospace(nm))

\* C14 as stated: components are found and no node is named "guide" together
\* with the target name: the result has no error and its guide is null
C14_NoGuideForTarget ==
    (op = "details" /\ search_components(components, arg) # <<>>
        /\ ~GuideNamed(details.found_name)) =>
        (~details.error /\ details.guide = <<>>)

\* C14 amended: ... and no node is named "guide" together with the query
\* either
C14_NoGuideIsNull ==
    (op = "details" /\ search_components(components, arg) # <<>>
        /\ ~GuideNamed(details.found_name) /\ ~GuideNamed(arg)) =>
        (~details.error /\ details.guide = <<>>)

\* the document has guide frames, none for this component; no image either
C14_Witness ==
    /\ op = "details"
    /\ search_components(components, arg) # <<>>
    /\ file.doc # <<>>
    /\ ~GuideNamed(details.found_name) /\ ~GuideNamed(arg)
    /\ Lower(details.found_name) # Lower(arg)
    /\ ~details.error
    /\ details.guide = <<>>
    /\ details.image_url = 0

\* the search hits whose cleaned containing-frame name contains the cleaned
\* query or is contained in it
FrameHits(comps, query) ==
    {k \in DOMAIN search_components(comps, query) :
        \/ Contains(clean(comps[search_components(comps, query)[k]].frame), clean(query))
        \/ Contains(clean(query), clean(comps[search_components(comps, query)[k]].frame))}

\* C17: the target is the first hit's own name and node id, unless some hit's
\* cleaned frame name contains the cleaned query or is contained in it: then
\* it is the frame name and frame node id of the first such hit
C17_TargetIsFrameOrFirstHit ==
    (op = "details" /\ ~details.error) =>
        LET sr == search_components(components, arg)
            hits == FrameHits(components, arg)
            k == CHOOSE i \in hits : \A j \in hits : i <= j
        IN  IF hits = {}
            THEN /\ details.found_name = components[sr[1]].name
                 /\ details.target_id = components[sr[1]].node_id
            ELSE /\ details.found_name = components[sr[k]].frame
                 /\ details.target_id = components[sr[k]].frame_id

\* ------------------------------------------------------------- C18, C19
\* the cover frame of the target of the last get_component_details: the first
\* top-level frame of the hit's page named like the target (0: none)
CoverOfTarget == find_top_level_frame(file.page, details.page_id, details.found_name)

\* C18: the image is the cover's render if the page id is known and a cover
\* frame is found and renders; it is the render of the target node if the page
\* id is unknown or no cover frame is found; it is null only if neither render
\* gives a URL; the cover is asked for before the target
C18_ImageFallbackChain ==
    (op = "details" /\ ~details.error) =>
        LET cover == IF details.page_id = 0 THEN 0 ELSE CoverOfTarget
            rc == IF cover = 0 THEN 0 ELSE get_node_image(file.images, cover)
            rt == IF details.target_id = 0 THEN 0
                  ELSE get_node_image(file.images, details.target_id)
            ic == {i \in DOMAIN details.calls : details.calls[i] = Req("images", cover)}
            it == {i \in DOMAIN details.calls : details.calls[i] = Req("images", details.target_id)}
        IN  /\ rc # 0 => details.image_url = rc
            /\ cover = 0 => details.image_url = rt
            /\ details.image_url = 0 => (rc = 0 /\ rt = 0)
            /\ rc = 0 => details.image_url = rt
            /\ (cover # 0 /\ cover # details.target_id) =>
                   /\ ic # {}
                   /\ \A i \in ic, j \in it : i < j

\* a cover frame is found, does not render, and the target's render is used
C18_Witness ==
    /\ op = "details" /\ ~details.error
    /\ details.page_id # 0
    /\ CoverOfTarget # 0
    /\ details.cover_id = CoverOfTarget
    /\ get_node_image(file.images, CoverOfTarget) = 0
    /\ details.image_url # 0
    /\ details.image_url = get_node_image(file.images, details.target_id)

\* C19: image_found_via is "cover" exactly when the image returned came from
\* the render of a cover frame, and "target_id" exactly when it came from the
\* render of the target node
C19_ImageFoundViaTellsThePath ==
    (op = "details" /\ ~details.error /\ details.image_url # 0) =>
        /\ details.image_found_via = "cover" <=> details.image_from = "cover"
        /\ details.image_found_via = "target_id" <=> details.image_from = "target_id"

\* ------------------------------------------------------------------ C15
\* the children of the page the last get_pattern_info answered for
PatternChildren ==
    patterns[CHOOSE i \in DOMAIN patterns : patterns[i].id = pattern.page_id].children

\* the positions of the FRAME and SECTION children
FramePositions ==
    {i \in DOMAIN PatternChildren : PatternChildren[i].type \in {"FRAME", "SECTION"}}

\* how many frames come before the frame at position i, left to right, frames
\* at the same x in page order
FramesBefore(i) ==
    Cardinality({j \in FramePositions :
        \/ PatternChildren[j].x < PatternChildren[i].x
        \/ PatternChildren[j].x = PatternChildren[i].x /\ j < i})

\* the first frames left to right, at most GuideFrameLimit of them, as
\* positions
LeftToRight ==
    [r \in 1..(IF Cardinality(FramePositions) < GuideFrameLimit
               THEN Cardinality(FramePositions) ELSE GuideFrameLimit) |->
        CHOOSE i \in FramePositions : FramesBefore(i) = r - 1]

\* "### <frame name>" and the texts of the frame, one per line
ClaimedSection(c) ==
    S_hashes \o c.name \o S_n \o Join(extract_text_from_node(c.chars), S_n)

LinkedNode == get_node_data(file.nodes, node_number(parse_figma_url(arg).node_id))

\* the master component of the linked node, as the file has it
MasterNode == get_node_data(file.nodes, LinkedNode.component_id)

\* C20: analyze_figma_url fetches the linked node; exactly for an INSTANCE with
\* a component reference the target id becomes the master's and the master is
\* fetched, the details being asked for by the master's name if that fetch
\* succeeds and by the instance's name if not; for any other node the target id
\* is the parsed node id; analysis_type is "Instance Link" exactly for an
\* INSTANCE; without a file key or without the node the result is an error and
\* get_component_details is not called
C20_InstanceResolvesToMaster ==
    (op = "analyze") =>
        IF parse_figma_url(arg).error \/ ~LinkedNode.known
        THEN /\ analysis.error
             /\ ~analysis.details_called
             /\ \A i \in DOMAIN analysis.calls : analysis.calls[i].api = "nodes"
        ELSE /\ ~analysis.error
             /\ analysis.calls[1] = Req("nodes", node_number(parse_figma_url(arg).node_id))
             /\ analysis.analysis_type = "Instance Link" <=> LinkedNode.type = "INSTANCE"
             /\ analysis.analysis_type \in {"Instance Link", "Component Link"}
             /\ analysis.details_called
             /\ analysis.details = get_component_details(components, file, analysis.target_name)
             /\ IF LinkedNode.type = "INSTANCE" /\ LinkedNode.component_id # 0
                THEN /\ analysis.target_id = node_id_text(LinkedNode.component_id)
                     /\ analysis.calls[2] = Req("nodes", LinkedNode.component_id)
                     /\ analysis.target_name =
                            IF MasterNode.known THEN MasterNode.name ELSE LinkedNode.name
                ELSE /\ analysis.target_id = parse_figma_url(arg).node_id
                     /\ analysis.target_name = LinkedNode.name
                     /\ analysis.calls[2] = Req("components", 0)

\* an instance whose master is in the file and has another name: the details
\* found are those of the master
C20_Witness ==
    /\ op = "analyze"
    /\ LinkedNode.known
    /\ LinkedNode.type = "INSTANCE"
    /\ MasterNode.known
    /\ MasterNode.name # LinkedNode.name
    /\ analysis.target_name = MasterNode.name
    /\ analysis.target_id # parse_figma_url(arg).node_id
    /\ ~analysis.details.error
    /\ analysis.details.found_name = S_Button

\* ------------------------------------------------------------------ C16
\* the list the claim names: at most 8 component entries, then at most 5
\* organism entries, then at most 5 pattern entries, each group in the order
\* of its search
ClaimedResults ==
    LET kit == Take(search_components(components, arg), ComponentLimit)
        org == Take(search_components(organisms, arg), OrganismLimit)
        pat == Take(search_patterns(patterns, arg), PatternLimit)
    IN  [i \in DOMAIN kit |->
            [type |-> "component",
             name |-> IF components[kit[i]].frame # <<>> THEN components[kit[i]].frame
                      ELSE components[kit[i]].name,
             node_id |-> components[kit[i]].node_id]]
        \o [i \in DOMAIN org |->
            [type |-> "organism",
             name |-> IF organisms[org[i]].frame # <<>> THEN organisms[org[i]].frame
                      ELSE organisms[org[i]].name,
             node_id |-> organisms[org[i]].node_id]]
        \o [i \in DOMAIN pat |->
            [type |-> "pattern", name |-> patterns[pat[i]].name, node_id |-> patterns[pat[i]].id]]

\* C16: the three searches of search_design_system are all joined before
\* anything is combined, and whatever the order in which they return the
\* result is the same list: at most 8 components, then at most 5 organisms,
\* then at most 5 patterns, each group in its search's order
C16_JoinedBeforeCombined ==
    /\ universal.pc = "done" =>
           /\ \A b \in Range(Branches) : universal.tasks[b].pc = "done"
           /\ Len(universal.finished) = Len(Branches)
           /\ universal.results = ClaimedResults
    /\ universal.pc # "done" => universal.results = <<>>

\* the tasks returned in the reverse of the order they were started in, each
\* search had more hits than are kept
C16_Witness ==
    /\ universal.pc = "done"
    /\ universal.finished = <<"patterns", "organisms", "components">>
    /\ Len(search_components(components, arg)) > ComponentLimit
    /\ Len(search_components(organisms, arg)) > OrganismLimit
    /\ Len(search_patterns(patterns, arg)) > PatternLimit
    /\ Len(universal.results) = ComponentLimit + OrganismLimit + PatternLimit

\* ------------------------------------------------------------------ C27
\* the names of the ancestors of node n from the root down, and of n itself,
\* joined by " > "
RECURSIVE Trail(_, _)
Trail(t, n) ==
    IF t[n].parent = 0 THEN t[n].name
    ELSE Trail(t, t[n].parent) \o <<32, 62, 32>> \o t[n].name

\* C27: every string emitted for a node starts with the trail of the names of
\* all its ancestors from the root down to the node itself
C27_PathIsTheAncestorTrail ==
    extracted =>
        \A i \in DOMAIN (walk.tokens \o walk.raw_props) :
            LET e == (walk.tokens \o walk.raw_props)[i]
            IN  StartsWith(e.text, Trail(tree, e.node))

\* ------------------------------------------------------------------ C21
\* node n and all its ancestors are visible
RECURSIVE ShownInTree(_, _)
ShownInTree(t, n) ==
    /\ t[n].visible
    /\ t[n].parent = 0 \/ ShownInTree(t, t[n].parent)

\* C21: the characters of a TEXT node that is not visible, or lies under an
\* ancestor that is not visible, never appear in the extracted text
C21_OnlyVisibleText ==
    (extracted /\ texts # <<>>) =>
        \A i \in DOMAIN texts : ShownInTree(tree, texts[i].node)

\* ------------------------------------------------------------------ C22
\* C22: a response whose status is not 2xx makes figma_request return the
\* failure value {error: "HTTP <status>: ..."}; one HTTP request is sent per
\* call and no exception is raised for such a status
C22_Non2xxIsAFailureValue ==
    (request.pc = "done" /\ request.result.status \notin 200..299) =>
        /\ request.result.kind = "error"
        /\ request.sent = request.calls

\* ------------------------------------------------------------------ C23
\* C23: when the target is the containing frame of a hit other than the first
\* one, the page scanned for the cover is that hit's page
C23_CoverSearchedOnTargetPage ==
    (op = "details" /\ ~details.error /\ FrameHits(components, arg) # {}) =>
        LET sr == search_components(components, arg)
            hits == FrameHits(components, arg)
            k == CHOOSE i \in hits : \A j \in hits : i <= j
        IN  (k # 1 /\ components[sr[k]].frame # <<>>) =>
                /\ details.found_name = components[sr[k]].frame
                /\ details.page_id = components[sr[k]].page_id

\* ------------------------------------------------------------------ C24
\* the requests for the file's document made by the last get_component_details:
\* one for every guide lookup
GuideLookups ==
    Len(SelectSeq(details.calls, LAMBDA r : r = Req("file", 0)))

\* C24: the guide is looked up with the target name first; it is looked up
\* again, with the raw query, exactly when the first lookup gave nothing and
\* the target name differs from the query ignoring case; a first lookup that
\* succeeds gives the guide returned
C24_GuideLookupChain ==
    (op = "details" /\ ~details.error) =>
        LET first == get_component_guide(file.doc, details.found_name).guide
            again == first = <<>> /\ Lower(details.found_name) # Lower(arg)
        IN  /\ details.calls[3] = Req("file", 0)
            /\ GuideLookups = (IF again THEN 2 ELSE 1)
            /\ first # <<>> => details.guide = first
            /\ again => details.guide = get_component_guide(file.doc, arg).guide
            /\ (first = <<>> /\ ~again) => details.guide = <<>>

\* the lookup by the target name gives nothing, the one by the query a guide
C24_Witness ==
    /\ op = "details" /\ ~details.error
    /\ get_component_guide(file.doc, details.found_name).guide = <<>>
    /\ GuideLookups = 2
    /\ details.guide # <<>>

\* ------------------------------------------------------------------ C25
\* the types of the component property definitions of the target node
TargetProps == get_node_data(file.nodes, details.target_id).props

\* C25 as stated: the summary has one line per defined property, whatever the
\* types of the properties
C25_OneLinePerProperty ==
    (op = "details" /\ ~details.error /\ TargetProps # <<>>) =>
        details.summary_lines = Len(TargetProps)

\* C25 amended: the summary has one line per defined property of type VARIANT,
\* BOOLEAN or TEXT, and none for a property of another type
C25_OneLinePerKnownType ==
    (op = "details" /\ ~details.error /\ TargetProps # <<>>) =>
        /\ details.props_count = Len(TargetProps)
        /\ details.summary_lines =
               Cardinality({i \in DOMAIN TargetProps :
                               TargetProps[i] \in {"VARIANT", "BOOLEAN", "TEXT"}})

\* a target with a property of each of the three types and an INSTANCE_SWAP
C25_Witness ==
    /\ op = "details" /\ ~details.error
    /\ \A t \in {"VARIANT", "BOOLEAN", "TEXT", "INSTANCE_SWAP"} :
           \E i \in DOMAIN TargetProps : TargetProps[i] = t
    /\ details.summary_lines = 3
    /\ details.props_count = 4

\* ------------------------------------------------------------------ C26
\* the positions of the guide frames of the page: FRAME and SECTION children
\* whose name has "guide" or is the page's name, letter case ignored
GuidePositions ==
    {i \in FramePositions :
        \/ Contains(Lower(PatternChildren[i].name), S_guide)
        \/ Lower(PatternChildren[i].name) = Lower(pattern.name)}

\* the names of the FRAME and SECTION children that are no guide frame, in
\* page order
ExampleNames ==
    LET ex == SelectSeq([i \in DOMAIN PatternChildren |-> i],
                        LAMBDA i : i \in FramePositions \ GuidePositions)
    IN  [k \in DOMAIN ex |-> PatternChildren[ex[k]].name]

\* C26: every top-level FRAME/SECTION is a guide frame or an example, never
\* both; with a guide frame the guide is the text of a guide frame alone and
\* the image is the render of that frame; with none the image is the render of
\* a frame of smallest x
C26_GuideFrameOrExamples ==
    (op = "pattern" /\ ~pattern.error) =>
        /\ pattern.examples = Take(ExampleNames, 10)
        /\ pattern.explicit <=> GuidePositions # {}
        /\ GuidePositions # {} =>
               \E g \in GuidePositions :
                   /\ pattern.guide =
                          Join(extract_text_from_node(PatternChildren[g].chars), S_nn)
                   /\ pattern.calls[Len(pattern.calls)] = Req("images", PatternChildren[g].id)
                   /\ pattern.image_url = get_node_image(file.images, PatternChildren[g].id)
        /\ (GuidePositions = {} /\ FramePositions # {}) =>
               \E i \in FramePositions :
                   /\ \A j \in FramePositions : PatternChildren[i].x <= PatternChildren[j].x
                   /\ pattern.calls[Len(pattern.calls)] = Req("images", PatternChildren[i].id)
                   /\ pattern.image_url = get_node_image(file.images, PatternChildren[i].id)
        /\ FramePositions = {} => pattern.image_url = 0

\* the guide frame is the one named like the page, beside a frame with text
\* that is an example
C26_Witness ==
    /\ op = "pattern" /\ ~pattern.error
    /\ \E g \in GuidePositions :
           /\ ~Contains(Lower(PatternChildren[g].name), S_guide)
           /\ pattern.guide = Join(extract_text_from_node(PatternChildren[g].chars), S_nn)
    /\ \E i \in FramePositions \ GuidePositions :
           extract_text_from_node(PatternChildren[i].chars) # <<>>
    /\ pattern.guide # <<>>
    /\ pattern.examples # <<>>

\* ------------------------------------------------------------------ C28
\* the positions of the components whose containing-frame name starts with
\* the name asked for
StartCandidates ==
    {i \in DOMAIN components :
        StartsWith(Lower(components[i].frame), Strip(Lower(arg)))}

\* the candidates of one containing-frame name
FrameGroup(f) == {i \in StartCandidates : components[i].frame = f}

\* no containing-frame name equals the name asked for, some start with it
StartsOnly ==
    /\ op = "variants"
    /\ \A i \in DOMAIN components :
           Strip(Lower(components[i].frame)) # Strip(Lower(arg))
    /\ StartCandidates # {}

\* C28: when no containing-frame name equals the name but some start with it,
\* the list returned is one group of candidates of the same exact frame name,
\* no group is larger, and every other group of the same size begins later in
\* the listing
C28_LargestGroupFirstListed ==
    StartsOnly =>
        \E c \in StartCandidates :
            LET best == FrameGroup(components[c].frame)
            IN  /\ Range(variants.list) = best
                /\ Len(variants.list) = Cardinality(best)
                /\ \A d \in StartCandidates :
                       LET other == FrameGroup(components[d].frame)
                       IN  /\ Cardinality(other) <= Cardinality(best)
                           /\ (other # best /\ Cardinality(other) = Cardinality(best))
                                  => \E i \in best : \A j \in other : i < j

\* two groups of the same size, and the one listed first is returned
C28_Witness ==
    /\ StartsOnly
    /\ \E c, d \in StartCandidates :
           /\ components[c].frame # components[d].frame
           /\ Cardinality(FrameGroup(components[c].frame))
                  = Cardinality(FrameGroup(components[d].frame))
           /\ c < d
           /\ c \in Range(variants.list)

\* a larger group listed after a smaller one is returned
C28_WitnessLarger ==
    /\ StartsOnly
    /\ \E c, d \in StartCandidates :
           /\ Cardinality(FrameGroup(components[c].frame))
                  < Cardinality(FrameGroup(components[d].frame))
           /\ c < d
           /\ d \in Range(variants.list)

\* ------------------------------------------------------------------ C30
\* C30: every non-empty list returned by get_component_variants is one variant
\* family: its members have the same containing-frame name, letter case and
\* surrounding whitespace ignored
C30_OneFamily ==
    op \in {"variants", "variants2"} =>
        \A i, j \in Range(variants.list) :
            Strip(Lower(components[i].frame)) = Strip(Lower(components[j].frame))

\* ------------------------------------------------------------------ C29
\* the branches whose listing request was answered with an error status
FailedBranches ==
    {b \in Range(Branches) : universal.tasks[b].status >= 400}

\* C29: search_design_system returns no partial result: a combined list is
\* returned only when no branch was answered with an HTTP error, and when one
\* was, the call ends with the error of a failed branch and without any list,
\* whatever the other branches returned
C29_NoPartialResult ==
    /\ universal.pc = "done" => FailedBranches = {}
    /\ FailedBranches # {} => universal.results = <<>>
    /\ universal.pc = "failed" =>
           /\ universal.error \in FailedBranches
           /\ universal.results = <<>>
    /\ (universal.pc = "gather" /\ FailedBranches # {}) => ~ENABLED CombineResults

\* the call failed with the error of the last branch after the other two had
\* returned with hits
C29_Witness ==
    /\ universal.pc = "failed"
    /\ Cardinality(FailedBranches) = 1
    /\ Len(universal.finished) = Len(Branches)
    /\ universal.finished[Len(Branches)] = universal.error
    /\ \A b \in Range(Branches) \ FailedBranches :
           universal.tasks[b].pc = "done" /\ universal.tasks[b].result # <<>>
====
